---------------------------- MODULE Spec2Model ----------------------------
(***************************************************************************)
(* A model of go-kafka-pusher's template engine (package template):       *)
(* Generator.Generate, buildSubstitutions, processValue, the DSL          *)
(* functions and applySubstitutions.                                       *)
(*                                                                         *)
(* Text (a Go string or []byte) is a sequence of one-character strings.    *)
(* A Go int and a big.Int are decimal digit texts, so that no value of the *)
(* program is cut to the width of the checker's integers.                  *)
(***************************************************************************)
EXTENDS Integers, Sequences, FiniteSets, TLC

(***************************************************************************)
(* Bounds of the model.                                                    *)
(***************************************************************************)
\* Goroutines calling Generate on the one Generator.
NumCallers == 2
\* Generate calls each goroutine makes, one after the other.
MaxCalls == 2
\* Payloads of the configuration, the largest batch size of one, and the
\* executions of the task function.
NumPayloads == 2
MaxBatchSize == 2
MaxExecs == 2
\* The largest worker_pool_size of a Scheduler, the calls one goroutine makes
\* on its API, the interval ticks delivered, and the goroutines that call the
\* API at the same time.
MaxWorkers == 2
MaxApiCalls == 3
MaxTicks == 1
NumControllers == 2
\* The calls each of these goroutines makes.
MaxRaceCalls == 2
\* The largest digit count N written as {{@rnd|N}} in the evaluator's inputs.
MaxDigitsArg == 20

(***************************************************************************)
(* Text                                                                    *)
(***************************************************************************)
None == "none"

Lower == {"a", "b", "c", "d", "e", "f", "g", "h", "i", "j", "k", "l", "m",
          "n", "o", "p", "q", "r", "s", "t", "u", "v", "w", "x", "y", "z"}
Upper == {"A", "B", "C", "D", "E", "F", "G", "H", "I", "J", "K", "L", "M",
          "N", "O", "P", "Q", "R", "S", "T", "U", "V", "W", "X", "Y", "Z"}
Digit == {"0", "1", "2", "3", "4", "5", "6", "7", "8", "9"}
\* regexp \s
Space == {" ", "\t", "\n", "\r", "\f"}
\* regexp [a-zA-Z0-9]
AlphaNum == Lower \cup Upper \cup Digit
\* text/template identifier characters
IdentChar == AlphaNum \cup {"_"}

DigitChars == <<"0", "1", "2", "3", "4", "5", "6", "7", "8", "9">>
HexChars == <<"0", "1", "2", "3", "4", "5", "6", "7", "8", "9",
              "a", "b", "c", "d", "e", "f">>

\* Whether text lit stands in s at position i.
HasPrefixAt(s, i, lit) ==
    /\ i >= 1
    /\ i + Len(lit) - 1 <= Len(s)
    /\ \A k \in 1..Len(lit) : s[i + k - 1] = lit[k]

\* The first position at or after i whose character is not in class
\* (Len(s) + 1 when there is none): a greedy class*.
RECURSIVE SkipWhile(_, _, _)
SkipWhile(s, i, class) ==
    IF i <= Len(s) /\ s[i] \in class THEN SkipWhile(s, i + 1, class) ELSE i

\* s[i..j-1]
Slice(s, i, j) == SubSeq(s, i, j - 1)

RECURSIVE Repeat(_, _)
Repeat(c, n) == IF n <= 0 THEN <<>> ELSE <<c>> \o Repeat(c, n - 1)

(***************************************************************************)
(* Decimal numbers: a Go int is [neg, mag], a big.Int is its magnitude;    *)
(* mag is the decimal text without leading zeros.                          *)
(***************************************************************************)
\* Digit texts of the random source's samples have at most this many digits.
MaxSampleLen == 19

DigitVal(c) == CHOOSE d \in 0..9 : DigitChars[d + 1] = c

\* The decimal text without its leading zeros ("000" is "0").
StripZeros(t) ==
    LET i == SkipWhile(t, 1, {"0"})
    IN  IF i > Len(t) THEN <<"0">> ELSE Slice(t, i, Len(t) + 1)

\* a < b, for two decimal texts without leading zeros.
BigLess(a, b) ==
    \/ Len(a) < Len(b)
    \/ /\ Len(a) = Len(b)
       /\ \E i \in 1..Len(a) :
            /\ DigitVal(a[i]) < DigitVal(b[i])
            /\ \A k \in 1..(i - 1) : a[k] = b[k]

RECURSIVE NatToText(_)
NatToText(n) ==
    IF n < 10 THEN <<DigitChars[n + 1]>>
    ELSE NatToText(n \div 10) \o <<DigitChars[(n % 10) + 1]>>

\* The value of a short decimal text.
RECURSIVE TextToNat(_)
TextToNat(t) ==
    IF t = <<>> THEN 0
    ELSE 10 * TextToNat(SubSeq(t, 1, Len(t) - 1)) + DigitVal(t[Len(t)])

GoInt(n) == [neg |-> n < 0, mag |-> NatToText(IF n < 0 THEN 0 - n ELSE n)]

(***************************************************************************)
(* The random source (crypto/rand) and the clock.  A read of the source    *)
(* either fails or answers; what it answers is drawn from samples.         *)
(***************************************************************************)
\* Samples of rand.Int's answer: 0, and for each length L up to
\* MaxSampleLen the least and the greatest L-digit number and 123...L.
RECURSIVE Counting(_)
Counting(L) ==
    IF L = 0 THEN <<>> ELSE Counting(L - 1) \o <<DigitChars[(L % 10) + 1]>>

BigSamples ==
    {<<"0">>}
    \cup {<<"1">> \o Repeat("0", L - 1) : L \in 1..MaxSampleLen}
    \cup {Repeat("9", L) : L \in 1..MaxSampleLen}
    \cup {Counting(L) : L \in 1..MaxSampleLen}

\* rand.Int(rand.Reader, max): uniform in [0, max).
RandInt(max) == {n \in BigSamples : BigLess(n, max)}

\* Samples of 16 random bytes.
ByteSamples ==
    {[i \in 1..16 |-> 255], [i \in 1..16 |-> (37 * i) % 256]}

HexByte(b) == <<HexChars[(b \div 16) + 1], HexChars[(b % 16) + 1]>>

RECURSIVE HexBytes(_)
HexBytes(bs) == IF bs = <<>> THEN <<>> ELSE HexByte(Head(bs)) \o HexBytes(Tail(bs))

\* The 8-4-4-4-12 form of 16 bytes.
HexGroups(b) ==
    HexBytes(SubSeq(b, 1, 4)) \o <<"-">> \o HexBytes(SubSeq(b, 5, 6)) \o <<"-">>
    \o HexBytes(SubSeq(b, 7, 8)) \o <<"-">> \o HexBytes(SubSeq(b, 9, 10)) \o <<"-">>
    \o HexBytes(SubSeq(b, 11, 16))

\* An outcome of evaluating a DSL function: the value, or the error.
Ok(v) == [val |-> v, err |-> None]
Fail(e) == [val |-> <<>>, err |-> e]

\* generateGUID: 16 random bytes, formatted; an error when the source fails.
generateGUID ==
    {Ok(HexGroups(b)) : b \in ByteSamples} \cup {Fail("random bytes")}

\* uuid.New(): a version 4 UUID of 16 random bytes; it panics when the
\* source fails.
uuidNew ==
    {Ok(HexGroups([b EXCEPT ![7] = (b[7] % 16) + 64, ![9] = (b[9] % 64) + 128])) :
        b \in ByteSamples}
    \cup {Fail("panic")}

(***************************************************************************)
(* generateRandomNumber                                                    *)
(***************************************************************************)
MaxRndDigits == 18
DefaultRndDigits == 6
MaxInt64 == <<"9", "2", "2", "3", "3", "7", "2", "0", "3", "6", "8", "5", "4",
              "7", "7", "5", "8", "0", "7">>

\* strconv.Atoi of a non-empty text of digits, its error dropped: the value,
\* or the greatest int when the value is out of range.
Atoi(s) ==
    LET m == StripZeros(s)
    IN  [neg |-> FALSE, mag |-> IF BigLess(MaxInt64, m) THEN MaxInt64 ELSE m]

\* The digit count generateRandomNumber works with: digits, at most 18.
ClampDigitsOffByOne(digits) ==
    IF ~digits.neg /\ BigLess(NatToText(MaxRndDigits + 1), digits.mag)
    THEN GoInt(MaxRndDigits)
    ELSE digits
ClampDigits(digits) ==
    IF ~digits.neg /\ BigLess(NatToText(MaxRndDigits), digits.mag)
    THEN GoInt(MaxRndDigits)
    ELSE digits

\* The exclusive upper bound of the draw: 10^d.
RndMaxInclusive(d) == <<"1">> \o Repeat("0", d - 1) \o <<"1">>
RndMax(d) == <<"1">> \o Repeat("0", d)

\* fmt.Sprintf("%0<d>d", n)
SprintfZeroPad(d, n) == IF Len(n) < d THEN Repeat("0", d - Len(n)) \o n ELSE n

generateRandomNumber(digits) ==
    IF digits.neg \/ digits.mag = <<"0">>
    THEN {Ok(<<"0">>)}
    ELSE LET d == TextToNat(ClampDigits(digits).mag)
         IN  {Ok(SprintfZeroPad(d, n)) : n \in RandInt(RndMax(d))}
             \cup {Fail("random number")}

(***************************************************************************)
(* formatTime.  A time is its fields, as texts; Time.Format copies the     *)
(* layout and replaces each reference field it finds by the time's.        *)
(***************************************************************************)
ClockSamples ==
    { [year |-> <<"2", "0", "2", "6">>,
       yy |-> <<"2", "6">>,
       longmonth |-> <<"N", "o", "v", "e", "m", "b", "e", "r">>,
       month |-> <<"N", "o", "v">>,
       mm |-> <<"1", "1">>,
       m |-> <<"1", "1">>,
       dd |-> <<"0", "4">>,
       d |-> <<"4">>,
       dpad |-> <<" ", "4">>,
       yday |-> <<"3", "0", "8">>,
       weekday |-> <<"W", "e", "d">>,
       longday |-> <<"W", "e", "d", "n", "e", "s", "d", "a", "y">>,
       hh |-> <<"0", "9">>,
       h12z |-> <<"0", "9">>,
       h12 |-> <<"9">>,
       mi |-> <<"0", "5">>,
       min |-> <<"5">>,
       ss |-> <<"0", "7">>,
       s |-> <<"7">>,
       pm |-> <<"A", "M">>,
       pmLower |-> <<"a", "m">>,
       zone |-> <<"U", "T", "C">>,
       zoneNum |-> <<"+", "0", "0", "0", "0">>,
       zoneNumColon |-> <<"+", "0", "0", ":", "0", "0">>,
       zoneIso |-> <<"Z">>,
       zoneIsoNoColon |-> <<"Z">>,
       frac9 |-> <<".", "1", "2", "3", "4", "5", "6", "7", "8", "9">>,
       unix |-> <<"1", "7", "9", "3", "7", "8", "3", "1", "0", "7">>,
       unixMilli |-> <<"1", "7", "9", "3", "7", "8", "3", "1", "0", "7",
                       "1", "2", "3">>,
       unixNano |-> <<"1", "7", "9", "3", "7", "8", "3", "1", "0", "7",
                      "1", "2", "3", "4", "5", "6", "7", "8", "9">>],
      [year |-> <<"2", "0", "2", "7">>,
       yy |-> <<"2", "7">>,
       longmonth |-> <<"J", "a", "n", "u", "a", "r", "y">>,
       month |-> <<"J", "a", "n">>,
       mm |-> <<"0", "1">>,
       m |-> <<"1">>,
       dd |-> <<"1", "5">>,
       d |-> <<"1", "5">>,
       dpad |-> <<"1", "5">>,
       yday |-> <<"0", "1", "5">>,
       weekday |-> <<"F", "r", "i">>,
       longday |-> <<"F", "r", "i", "d", "a", "y">>,
       hh |-> <<"2", "3">>,
       h12z |-> <<"1", "1">>,
       h12 |-> <<"1", "1">>,
       mi |-> <<"5", "9">>,
       min |-> <<"5", "9">>,
       ss |-> <<"5", "9">>,
       s |-> <<"5", "9">>,
       pm |-> <<"P", "M">>,
       pmLower |-> <<"p", "m">>,
       zone |-> <<"C", "E", "T">>,
       zoneNum |-> <<"+", "0", "1", "0", "0">>,
       zoneNumColon |-> <<"+", "0", "1", ":", "0", "0">>,
       zoneIso |-> <<"+", "0", "1", ":", "0", "0">>,
       zoneIsoNoColon |-> <<"+", "0", "1", "0", "0">>,
       frac9 |-> <<>>,
       unix |-> <<"1", "8", "0", "0", "0", "5", "3", "9", "9", "9">>,
       unixMilli |-> <<"1", "8", "0", "0", "0", "5", "3", "9", "9", "9",
                       "0", "0", "0">>,
       unixNano |-> <<"1", "8", "0", "0", "0", "5", "3", "9", "9", "9",
                      "0", "0", "0", "0", "0", "0", "0", "0", "0">>] }

Layout == [
    \* time.ANSIC = "Mon Jan _2 15:04:05 2006"
    ANSIC |->
        <<"M", "o", "n", " ", "J", "a", "n", " ", "_", "2", " ",
        "1", "5", ":", "0", "4", ":", "0", "5", " ", "2", "0",
        "0", "6">>,
    \* time.UnixDate = "Mon Jan _2 15:04:05 MST 2006"
    UnixDate |->
        <<"M", "o", "n", " ", "J", "a", "n", " ", "_", "2", " ",
        "1", "5", ":", "0", "4", ":", "0", "5", " ", "M", "S",
        "T", " ", "2", "0", "0", "6">>,
    \* time.RubyDate = "Mon Jan 02 15:04:05 -0700 2006"
    RubyDate |->
        <<"M", "o", "n", " ", "J", "a", "n", " ", "0", "2", " ",
        "1", "5", ":", "0", "4", ":", "0", "5", " ", "-", "0",
        "7", "0", "0", " ", "2", "0", "0", "6">>,
    \* time.RFC822 = "02 Jan 06 15:04 MST"
    RFC822 |->
        <<"0", "2", " ", "J", "a", "n", " ", "0", "6", " ", "1",
        "5", ":", "0", "4", " ", "M", "S", "T">>,
    \* time.RFC822Z = "02 Jan 06 15:04 -0700"
    RFC822Z |->
        <<"0", "2", " ", "J", "a", "n", " ", "0", "6", " ", "1",
        "5", ":", "0", "4", " ", "-", "0", "7", "0", "0">>,
    \* time.RFC850 = "Monday, 02-Jan-06 15:04:05 MST"
    RFC850 |->
        <<"M", "o", "n", "d", "a", "y", ",", " ", "0", "2", "-",
        "J", "a", "n", "-", "0", "6", " ", "1", "5", ":", "0",
        "4", ":", "0", "5", " ", "M", "S", "T">>,
    \* time.RFC1123 = "Mon, 02 Jan 2006 15:04:05 MST"
    RFC1123 |->
        <<"M", "o", "n", ",", " ", "0", "2", " ", "J", "a", "n",
        " ", "2", "0", "0", "6", " ", "1", "5", ":", "0", "4",
        ":", "0", "5", " ", "M", "S", "T">>,
    \* time.RFC1123Z = "Mon, 02 Jan 2006 15:04:05 -0700"
    RFC1123Z |->
        <<"M", "o", "n", ",", " ", "0", "2", " ", "J", "a", "n",
        " ", "2", "0", "0", "6", " ", "1", "5", ":", "0", "4",
        ":", "0", "5", " ", "-", "0", "7", "0", "0">>,
    \* time.RFC3339 = "2006-01-02T15:04:05Z07:00"
    RFC3339 |->
        <<"2", "0", "0", "6", "-", "0", "1", "-", "0", "2", "T",
        "1", "5", ":", "0", "4", ":", "0", "5", "Z", "0", "7",
        ":", "0", "0">>,
    \* time.RFC3339Nano = "2006-01-02T15:04:05.999999999Z07:00"
    RFC3339Nano |->
        <<"2", "0", "0", "6", "-", "0", "1", "-", "0", "2",
        "T", "1", "5", ":", "0", "4", ":", "0", "5", ".",
        "9", "9", "9", "9", "9", "9", "9", "9", "9", "Z",
        "0", "7", ":", "0", "0">>
]

StdChunks ==
    << [chunk |-> <<"J", "a", "n", "u", "a", "r", "y">>, field |-> "longmonth", word |-> FALSE],
       [chunk |-> <<"J", "a", "n">>, field |-> "month", word |-> TRUE],
       [chunk |-> <<"M", "o", "n", "d", "a", "y">>, field |-> "longday", word |-> FALSE],
       [chunk |-> <<"M", "o", "n">>, field |-> "weekday", word |-> TRUE],
       [chunk |-> <<"M", "S", "T">>, field |-> "zone", word |-> FALSE],
       [chunk |-> <<"0", "1">>, field |-> "mm", word |-> FALSE],
       [chunk |-> <<"0", "2">>, field |-> "dd", word |-> FALSE],
       [chunk |-> <<"0", "3">>, field |-> "h12z", word |-> FALSE],
       [chunk |-> <<"0", "4">>, field |-> "mi", word |-> FALSE],
       [chunk |-> <<"0", "5">>, field |-> "ss", word |-> FALSE],
       [chunk |-> <<"0", "6">>, field |-> "yy", word |-> FALSE],
       [chunk |-> <<"0", "0", "2">>, field |-> "yday", word |-> FALSE],
       [chunk |-> <<"1", "5">>, field |-> "hh", word |-> FALSE],
       [chunk |-> <<"1">>, field |-> "m", word |-> FALSE],
       [chunk |-> <<"2", "0", "0", "6">>, field |-> "year", word |-> FALSE],
       [chunk |-> <<"2">>, field |-> "d", word |-> FALSE],
       [chunk |-> <<"_", "2">>, field |-> "dpad", word |-> FALSE],
       [chunk |-> <<"3">>, field |-> "h12", word |-> FALSE],
       [chunk |-> <<"4">>, field |-> "min", word |-> FALSE],
       [chunk |-> <<"5">>, field |-> "s", word |-> FALSE],
       [chunk |-> <<"P", "M">>, field |-> "pm", word |-> FALSE],
       [chunk |-> <<"p", "m">>, field |-> "pmLower", word |-> FALSE],
       [chunk |-> <<"-", "0", "7", ":", "0", "0">>, field |-> "zoneNumColon", word |-> FALSE],
       [chunk |-> <<"-", "0", "7", "0", "0">>, field |-> "zoneNum", word |-> FALSE],
       [chunk |-> <<"Z", "0", "7", ":", "0", "0">>, field |-> "zoneIso", word |-> FALSE],
       [chunk |-> <<"Z", "0", "7", "0", "0">>, field |-> "zoneIsoNoColon", word |-> FALSE],
       [chunk |-> <<".", "9", "9", "9", "9", "9", "9", "9", "9", "9">>, field |-> "frac9", word |-> FALSE] >>

Name == [
    RFC822 |->
        <<"R", "F", "C", "8", "2", "2">>,
    RFC822Z |->
        <<"R", "F", "C", "8", "2", "2", "Z">>,
    RFC850 |->
        <<"R", "F", "C", "8", "5", "0">>,
    RFC1123 |->
        <<"R", "F", "C", "1", "1", "2", "3">>,
    RFC1123Z |->
        <<"R", "F", "C", "1", "1", "2", "3", "Z">>,
    RFC3339 |->
        <<"R", "F", "C", "3", "3", "3", "9">>,
    RFC3339NANO |->
        <<"R", "F", "C", "3", "3", "3", "9", "N", "A", "N", "O">>,
    UNIX |->
        <<"U", "N", "I", "X">>,
    UNIXMILLI |->
        <<"U", "N", "I", "X", "M", "I", "L", "L", "I">>,
    UNIXNANO |->
        <<"U", "N", "I", "X", "N", "A", "N", "O">>,
    ANSIC |->
        <<"A", "N", "S", "I", "C">>,
    UNIXDATE |->
        <<"U", "N", "I", "X", "D", "A", "T", "E">>,
    RUBYDATE |->
        <<"R", "U", "B", "Y", "D", "A", "T", "E">>
]

\* Whether chunk c of the layout starts at position i: a month or weekday
\* abbreviation only when no lower-case letter follows it.
ChunkAt(layout, i, c) ==
    /\ HasPrefixAt(layout, i, c.chunk)
    /\ c.word =>
         ~(i + Len(c.chunk) <= Len(layout) /\ layout[i + Len(c.chunk)] \in Lower)

\* Time.Format(layout), on the reference fields of StdChunks.
RECURSIVE TimeFormatFrom(_, _, _)
TimeFormatFrom(t, layout, i) ==
    IF i > Len(layout) THEN <<>>
    ELSE LET hits == {k \in 1..Len(StdChunks) : ChunkAt(layout, i, StdChunks[k])}
         IN  IF hits = {}
             THEN <<layout[i]>> \o TimeFormatFrom(t, layout, i + 1)
             ELSE LET k == CHOOSE x \in hits : \A y \in hits : x <= y
                      c == StdChunks[k]
                  IN  t[c.field] \o TimeFormatFrom(t, layout, i + Len(c.chunk))

TimeFormat(t, layout) == TimeFormatFrom(t, layout, 1)

LowerSeq == <<"a", "b", "c", "d", "e", "f", "g", "h", "i", "j", "k", "l", "m",
              "n", "o", "p", "q", "r", "s", "t", "u", "v", "w", "x", "y", "z">>
UpperSeq == <<"A", "B", "C", "D", "E", "F", "G", "H", "I", "J", "K", "L", "M",
              "N", "O", "P", "Q", "R", "S", "T", "U", "V", "W", "X", "Y", "Z">>

\* strings.ToUpper
ToUpper(s) ==
    [i \in 1..Len(s) |->
        IF s[i] \in Lower
        THEN UpperSeq[CHOOSE k \in 1..Len(LowerSeq) : LowerSeq[k] = s[i]]
        ELSE s[i]]

formatTime(t, format) ==
    LET f == ToUpper(format)
    IN  CASE f = Name.RFC822 -> TimeFormat(t, Layout.RFC822)
          [] f = Name.RFC822Z -> TimeFormat(t, Layout.RFC822Z)
          [] f = Name.RFC850 -> TimeFormat(t, Layout.RFC850)
          [] f = Name.RFC1123 -> TimeFormat(t, Layout.RFC1123)
          [] f = Name.RFC1123Z -> TimeFormat(t, Layout.RFC1123Z)
          [] f = Name.RFC3339 -> TimeFormat(t, Layout.RFC3339)
          [] f = Name.RFC3339NANO -> TimeFormat(t, Layout.RFC3339Nano)
          [] f = Name.UNIX -> t.unix
          [] f = Name.UNIXMILLI -> t.unixMilli
          [] f = Name.UNIXNANO -> t.unixNano
          [] f = Name.ANSIC -> TimeFormat(t, Layout.ANSIC)
          [] f = Name.UNIXDATE -> TimeFormat(t, Layout.UnixDate)
          [] f = Name.RUBYDATE -> TimeFormat(t, Layout.RubyDate)
          [] OTHER -> TimeFormat(t, f)

(***************************************************************************)
(* processValue: the four DSL patterns, tried in the order of the code.    *)
(***************************************************************************)
Open == <<"{", "{">>
Close == <<"}", "}">>
Fn == [
    Guid |->
        <<"g", "u", "i", "d">>,
    Uuid |->
        <<"u", "u", "i", "d">>,
    Now |->
        <<"n", "o", "w">>,
    Rnd |->
        <<"r", "n", "d">>
]

NoMatch == [found |-> FALSE, arg |-> <<>>]

\* A match of the regular expression {{\s*@<name>\|?(<class>*)\s*}} that
\* starts at position i of s, with its submatch; without `pipe` the
\* expression is {{\s*@<name>\s*}}.  Every repetition is followed by a
\* character outside its class, so the greedy match is the only one.
MatchAt(s, i, name, pipe, class) ==
    LET a == SkipWhile(s, i + 2, Space)
        b == a + 1 + Len(name)
        c == IF pipe /\ b <= Len(s) /\ s[b] = "|" THEN b + 1 ELSE b
        d == IF pipe THEN SkipWhile(s, c, class) ELSE c
        e == SkipWhile(s, d, Space)
    IN  IF /\ HasPrefixAt(s, i, Open)
           /\ HasPrefixAt(s, a, <<"@">> \o name)
           /\ HasPrefixAt(s, e, Close)
        THEN [found |-> TRUE, arg |-> Slice(s, c, d)]
        ELSE NoMatch

\* The expression matches at the start of s only.
FindStringSubmatchAnchored(s, name, pipe, class) ==
    IF s = <<>> THEN NoMatch ELSE MatchAt(s, 1, name, pipe, class)

\* regexp's MatchString and FindStringSubmatch: the leftmost match in s.
FindStringSubmatch(s, name, pipe, class) ==
    LET starts == {i \in 1..Len(s) : MatchAt(s, i, name, pipe, class).found}
    IN  IF starts = {} THEN NoMatch
        ELSE MatchAt(s, CHOOSE i \in starts : \A j \in starts : i <= j,
                     name, pipe, class)

MatchGuid(s) == FindStringSubmatch(s, Fn.Guid, FALSE, {})
MatchUuid(s) == FindStringSubmatch(s, Fn.Uuid, FALSE, {})
MatchNow(s) == FindStringSubmatch(s, Fn.Now, TRUE, AlphaNum)
MatchRnd(s) == FindStringSubmatch(s, Fn.Rnd, TRUE, Digit)

\* The outcomes of one DSL function, each marked with the function run.
Ran(fn, outcomes) ==
    {[val |-> o.val, err |-> o.err, fn |-> <<fn>>] : o \in outcomes}

nowOutcomes(value) ==
    LET m == MatchNow(value)
        format == IF m.arg # <<>> THEN m.arg ELSE Name.RFC3339
    IN  {Ok(formatTime(t, format)) : t \in ClockSamples}

rndOutcomes(value) ==
    LET m == MatchRnd(value)
        digits == IF m.arg # <<>> THEN Atoi(m.arg) ELSE GoInt(DefaultRndDigits)
    IN  generateRandomNumber(digits)

\* Every function whose pattern matches is run, the last one's value kept
\* (what the loader's BuildSub did).
processValueAllMatches(value) ==
    LET g == IF MatchGuid(value).found THEN <<"guid">> ELSE <<>>
        u == IF MatchUuid(value).found THEN <<"uuid">> ELSE <<>>
        n == IF MatchNow(value).found THEN <<"now">> ELSE <<>>
        r == IF MatchRnd(value).found THEN <<"rnd">> ELSE <<>>
        fns == g \o u \o n \o r
        last == IF fns = <<>> THEN "" ELSE fns[Len(fns)]
        outs == CASE last = "guid" -> generateGUID
                  [] last = "uuid" -> uuidNew
                  [] last = "now" -> nowOutcomes(value)
                  [] last = "rnd" -> rndOutcomes(value)
                  [] OTHER -> {Ok(value)}
    IN  {[val |-> o.val, err |-> o.err, fn |-> fns] : o \in outs}

\* A string no pattern matches is an error.
processValueStrict(value) ==
    IF MatchGuid(value).found THEN Ran("guid", generateGUID)
    ELSE IF MatchUuid(value).found THEN Ran("uuid", uuidNew)
    ELSE IF MatchNow(value).found THEN Ran("now", nowOutcomes(value))
    ELSE IF MatchRnd(value).found THEN Ran("rnd", rndOutcomes(value))
    ELSE IF \E i \in 1..Len(value) : HasPrefixAt(value, i, Open \o <<"@">>)
         THEN {[val |-> <<>>, err |-> "unknown function", fn |-> <<>>]}
         ELSE {[val |-> value, err |-> None, fn |-> <<>>]}

\* The fall-through returns the empty string instead of the value.
processValueDropsLiteral(value) ==
    IF MatchGuid(value).found THEN Ran("guid", generateGUID)
    ELSE IF MatchUuid(value).found THEN Ran("uuid", uuidNew)
    ELSE IF MatchNow(value).found THEN Ran("now", nowOutcomes(value))
    ELSE IF MatchRnd(value).found THEN Ran("rnd", rndOutcomes(value))
    ELSE {[val |-> <<>>, err |-> None, fn |-> <<>>]}

\* The outcomes of processValue(value): [val, err] and fn, the DSL
\* functions run to produce it.
processValue(value) ==
    IF MatchGuid(value).found THEN Ran("guid", generateGUID)
    ELSE IF MatchUuid(value).found THEN Ran("uuid", uuidNew)
    ELSE IF MatchNow(value).found THEN Ran("now", nowOutcomes(value))
    ELSE IF MatchRnd(value).found THEN Ran("rnd", rndOutcomes(value))
    ELSE {[val |-> value, err |-> None, fn |-> <<>>]}

(***************************************************************************)
(* Values of the template file (interface{}): a string, or a scalar that   *)
(* is not one, kept as the text fmt prints for it; an object of the        *)
(* `template` mapping is a function from keys to values.                   *)
(***************************************************************************)
Str(s) == [kind |-> "string", text |-> s]
Num(s) == [kind |-> "number", text |-> s]
Bool(s) == [kind |-> "bool", text |-> s]
Obj(f) == [kind |-> "object", members |-> f]

\* Byte order of the characters keys are written in.
CharOrder == DigitChars \o UpperSeq \o <<"_">> \o LowerSeq
Ord(c) == CHOOSE i \in 1..Len(CharOrder) : CharOrder[i] = c

\* a < b in byte order.
TextLess(a, b) ==
    \E i \in 1..(Len(a) + 1) :
        /\ \A k \in 1..(i - 1) : k <= Len(b) /\ a[k] = b[k]
        /\ \/ i = Len(a) + 1 /\ Len(b) > Len(a)
           \/ i <= Len(a) /\ i <= Len(b) /\ Ord(a[i]) < Ord(b[i])

\* The keys of a map, sorted as json.Marshal sorts them.
RECURSIVE SortedKeys(_)
SortedKeys(keys) ==
    IF keys = {} THEN <<>>
    ELSE LET k == CHOOSE x \in keys : \A y \in keys \ {x} : TextLess(x, y)
         IN  <<k>> \o SortedKeys(keys \ {k})

\* encoding/json's escape of one character of a string.
EscapeJSON(c) ==
    CASE c = "\"" -> <<"\\", "\"">>
      [] c = "\\" -> <<"\\", "\\">>
      [] c = "\n" -> <<"\\", "n">>
      [] c = "\r" -> <<"\\", "r">>
      [] c = "\t" -> <<"\\", "t">>
      [] c = "\f" -> <<"\\", "u", "0", "0", "0", "c">>
      [] c = "<" -> <<"\\", "u", "0", "0", "3", "c">>
      [] c = ">" -> <<"\\", "u", "0", "0", "3", "e">>
      [] c = "&" -> <<"\\", "u", "0", "0", "2", "6">>
      [] OTHER -> <<c>>

RECURSIVE EscapeText(_)
EscapeText(s) ==
    IF s = <<>> THEN <<>> ELSE EscapeJSON(Head(s)) \o EscapeText(Tail(s))

Quoted(s) == <<"\"">> \o EscapeText(s) \o <<"\"">>

\* json.Marshal of a value of the `template` mapping.
RECURSIVE MarshalValue(_)
RECURSIVE MarshalMembers(_, _)
MarshalMembers(f, keys) ==
    IF keys = <<>> THEN <<>>
    ELSE Quoted(Head(keys)) \o <<":">> \o MarshalValue(f[Head(keys)])
         \o (IF Len(keys) > 1 THEN <<",">> ELSE <<>>)
         \o MarshalMembers(f, Tail(keys))

MarshalValue(v) ==
    CASE v.kind = "string" -> Quoted(v.text)
      [] v.kind = "object" ->
            <<"{">> \o MarshalMembers(v.members, SortedKeys(DOMAIN v.members))
            \o <<"}">>
      [] OTHER -> v.text

\* json.Marshal(g.template.Template)
jsonMarshal(template) == MarshalValue(Obj(template))

(***************************************************************************)
(* applySubstitutions: text/template's Parse and Execute, for templates    *)
(* whose actions are field references {{ .name }}.                         *)
(***************************************************************************)
TplSpace == {" ", "\t", "\r", "\n"}
NoValue == <<"<", "n", "o", " ", "v", "a", "l", "u", "e", ">">>

\* The action that starts at position i: its field name and the position
\* after its }}; ok is FALSE when it is no field reference (Parse fails).
ActionAt(s, i) ==
    LET a == SkipWhile(s, i + 2, TplSpace)
        b == SkipWhile(s, a + 1, IdentChar)
        c == SkipWhile(s, b, TplSpace)
    IN  [ok |-> /\ HasPrefixAt(s, a, <<".">>)
                /\ b > a + 1
                /\ HasPrefixAt(s, c, Close),
         name |-> Slice(s, a + 1, b),
         next |-> c + 2]

\* Whether Parse accepts the text from position i on.
RECURSIVE ParsesFrom(_, _)
ParsesFrom(s, i) ==
    IF i > Len(s) THEN TRUE
    ELSE IF HasPrefixAt(s, i, Open)
         THEN ActionAt(s, i).ok /\ ParsesFrom(s, ActionAt(s, i).next)
         ELSE ParsesFrom(s, i + 1)

\* What a field reference prints: the value's text, or <no value> for a key
\* the map does not hold.
FieldText(substitutions, name) ==
    IF name \in DOMAIN substitutions THEN substitutions[name].text ELSE NoValue

\* Execute from position i on: the text copied, each action replaced.
RECURSIVE ExecuteFrom(_, _, _)
ExecuteFrom(s, i, substitutions) ==
    IF i > Len(s) THEN <<>>
    ELSE IF HasPrefixAt(s, i, Open)
         THEN FieldText(substitutions, ActionAt(s, i).name)
              \o ExecuteFrom(s, ActionAt(s, i).next, substitutions)
         ELSE <<s[i]>> \o ExecuteFrom(s, i + 1, substitutions)

\* applySubstitutions(templateJSON, substitutions): the bytes, or the error.
applySubstitutions(templateJSON, substitutions) ==
    IF ParsesFrom(templateJSON, 1)
    THEN Ok(ExecuteFrom(templateJSON, 1, substitutions))
    ELSE Fail("failed to parse template")

(***************************************************************************)
(* JSON texts (RFC 8259), as json.Valid decides them.  Each J... operator  *)
(* gives the position after the element that starts at i, or 0.            *)
(***************************************************************************)
JSONSpace == {" ", "\t", "\n", "\r"}
JSONControl == {"\t", "\n", "\r", "\f"}
JSONEscapes == {"\"", "\\", "/", "b", "f", "n", "r", "t"}
HexDigit == Digit \cup {"a", "b", "c", "d", "e", "f", "A", "B", "C", "D", "E", "F"}

At(s, i) == IF i >= 1 /\ i <= Len(s) THEN s[i] ELSE ""

\* The position after the characters of a string whose opening quote is
\* before position j.
RECURSIVE JStringBody(_, _)
JStringBody(s, j) ==
    IF j > Len(s) THEN 0
    ELSE IF s[j] = "\"" THEN j + 1
    ELSE IF s[j] \in JSONControl THEN 0
    ELSE IF s[j] = "\\"
         THEN IF At(s, j + 1) \in JSONEscapes THEN JStringBody(s, j + 2)
              ELSE IF /\ At(s, j + 1) = "u"
                      /\ \A k \in 2..5 : At(s, j + k) \in HexDigit
                   THEN JStringBody(s, j + 6)
                   ELSE 0
    ELSE JStringBody(s, j + 1)

JString(s, i) == IF At(s, i) = "\"" THEN JStringBody(s, i + 1) ELSE 0

\* -?(0|[1-9][0-9]*)(\.[0-9]+)?([eE][+-]?[0-9]+)?
JNumber(s, i) ==
    LET a == IF At(s, i) = "-" THEN i + 1 ELSE i
        b == IF At(s, a) = "0" THEN a + 1 ELSE SkipWhile(s, a, Digit)
        c == IF At(s, b) = "." THEN SkipWhile(s, b + 1, Digit) ELSE b
        d == IF At(s, c) \in {"e", "E"}
             THEN IF At(s, c + 1) \in {"+", "-"} THEN c + 2 ELSE c + 1
             ELSE c
        e == IF d > c THEN SkipWhile(s, d, Digit) ELSE c
    IN  IF b = a \/ (c > b /\ c = b + 1) \/ (d > c /\ e = d) THEN 0 ELSE e

JTrue == <<"t", "r", "u", "e">>
JFalse == <<"f", "a", "l", "s", "e">>
JNull == <<"n", "u", "l", "l">>

RECURSIVE JValue(_, _)
RECURSIVE JMembers(_, _)
RECURSIVE JElements(_, _)

\* The members of an object from position i on, and its closing brace.
JMembers(s, i) ==
    LET k == JString(s, SkipWhile(s, i, JSONSpace))
        c == SkipWhile(s, k, JSONSpace)
        v == IF k # 0 /\ At(s, c) = ":" THEN JValue(s, c + 1) ELSE 0
        n == SkipWhile(s, v, JSONSpace)
    IN  IF v = 0 THEN 0
        ELSE IF At(s, n) = "," THEN JMembers(s, n + 1)
        ELSE IF At(s, n) = "}" THEN n + 1
        ELSE 0

\* The elements of an array from position i on, and its closing bracket.
JElements(s, i) ==
    LET v == JValue(s, i)
        n == SkipWhile(s, v, JSONSpace)
    IN  IF v = 0 THEN 0
        ELSE IF At(s, n) = "," THEN JElements(s, n + 1)
        ELSE IF At(s, n) = "]" THEN n + 1
        ELSE 0

JValue(s, i) ==
    LET a == SkipWhile(s, i, JSONSpace)
        c == At(s, a)
    IN  CASE c = "\"" -> JString(s, a)
          [] c = "{" ->
                IF At(s, SkipWhile(s, a + 1, JSONSpace)) = "}"
                THEN SkipWhile(s, a + 1, JSONSpace) + 1
                ELSE JMembers(s, a + 1)
          [] c = "[" ->
                IF At(s, SkipWhile(s, a + 1, JSONSpace)) = "]"
                THEN SkipWhile(s, a + 1, JSONSpace) + 1
                ELSE JElements(s, a + 1)
          [] c \in Digit \cup {"-"} -> JNumber(s, a)
          [] HasPrefixAt(s, a, JTrue) -> a + Len(JTrue)
          [] HasPrefixAt(s, a, JFalse) -> a + Len(JFalse)
          [] HasPrefixAt(s, a, JNull) -> a + Len(JNull)
          [] OTHER -> 0

\* Whether the bytes are one JSON value (json.Valid).
ValidJSON(s) ==
    LET e == JValue(s, 1)
    IN  e # 0 /\ SkipWhile(s, e, JSONSpace) = Len(s) + 1

(***************************************************************************)
(* Template files the Generator is constructed from.                       *)
(***************************************************************************)
Txt == [
    \* static-value
    StaticValue |->
        <<"s", "t", "a", "t", "i", "c", "-", "v", "a", "l", "u",
        "e">>,
    \* {{@guid}}
    Guid |->
        <<"{", "{", "@", "g", "u", "i", "d", "}", "}">>,
    \* {{@uuid}}
    Uuid |->
        <<"{", "{", "@", "u", "u", "i", "d", "}", "}">>,
    \* {{@now|Unix}}
    NowUnix |->
        <<"{", "{", "@", "n", "o", "w", "|", "U", "n", "i", "x", "}",
        "}">>,
    \* {{@rnd|1}}
    Rnd1 |->
        <<"{", "{", "@", "r", "n", "d", "|", "1", "}", "}">>,
    \* {{@foo}}
    UnknownFn |->
        <<"{", "{", "@", "f", "o", "o", "}", "}">>,
    \* a"b
    Quote |->
        <<"a", "\"", "b">>,
    \* a\
    Backslash |->
        <<"a", "\\">>,
    \* {{.id}}
    RefId |->
        <<"{", "{", ".", "i", "d", "}", "}">>,
    \* {{.missing}}
    RefMissing |->
        <<"{", "{", ".", "m", "i", "s", "s", "i", "n", "g", "}",
        "}">>,
    \* {{.ts}}
    RefTs |->
        <<"{", "{", ".", "t", "s", "}", "}">>,
    \* {{.r}}-{{ .n }}
    RefRN |->
        <<"{", "{", ".", "r", "}", "}", "-", "{", "{", " ", ".", "n",
        " ", "}", "}">>,
    \* {{.n}}
    RefN |->
        <<"{", "{", ".", "n", "}", "}">>,
    \* say "{{.id}}" <b>
    SayId |->
        <<"s", "a", "y", " ", "\"", "{", "{", ".", "i", "d", "}", "}",
        "\"", " ", "<", "b", ">">>,
    \* {"x":"static-value"}
    ExpectedStatic |->
        <<"{", "\"", "x", "\"", ":", "\"", "s", "t", "a", "t",
        "i", "c", "-", "v", "a", "l", "u", "e", "\"", "}">>
]

Key == [
    A |->
        <<"a">>,
    B |->
        <<"b">>,
    C |->
        <<"c">>,
    Id |->
        <<"i", "d">>,
    K |->
        <<"k">>,
    N |->
        <<"n">>,
    R |->
        <<"r">>,
    Ts |->
        <<"t", "s">>,
    X |->
        <<"x">>
]

\* A map of one, two or three entries.
Map1(k, v) == [x \in {k} |-> v]
Map2(k1, v1, k2, v2) == [x \in {k1, k2} |-> IF x = k1 THEN v1 ELSE v2]
Map3(k1, v1, k2, v2, k3, v3) ==
    [x \in {k1, k2, k3} |-> IF x = k1 THEN v1 ELSE IF x = k2 THEN v2 ELSE v3]

\* A YAML mapping with a key that is no string: map[interface{}]interface{},
\* which encoding/json does not marshal.
YamlMap == [kind |-> "yamlmap", text |-> <<>>]

Tmpl(substitution, template) ==
    [Substitution |-> substitution, Template |-> template]

TemplateLiteral == Tmpl(Map1(Key.Id, Str(Txt.StaticValue)), Map1(Key.X, Str(Txt.RefId)))
TemplateGuid == Tmpl(Map1(Key.Id, Str(Txt.Guid)), Map1(Key.X, Str(Txt.RefId)))
TemplateMissing == Tmpl(Map1(Key.Id, Str(Txt.Uuid)), Map1(Key.X, Str(Txt.RefMissing)))
TemplateQuote == Tmpl(Map1(Key.Id, Str(Txt.Quote)), Map1(Key.X, Str(Txt.RefId)))
TemplateBackslash == Tmpl(Map1(Key.Id, Str(Txt.Backslash)), Map1(Key.X, Str(Txt.RefId)))
TemplateMixed ==
    Tmpl(Map2(Key.N, Num(<<"4", "2">>), Key.R, Str(Txt.Rnd1)),
         Map3(Key.B, Str(Txt.RefRN), Key.A, Num(<<"7">>),
              Key.C, Obj(Map1(Key.K, Str(Txt.RefN)))))
TemplateTime ==
    Tmpl(Map1(Key.Ts, Str(Txt.NowUnix)),
         Map2(Key.Id, Str(Txt.RefTs), Key.Ts, Str(Txt.RefTs)))
TemplateBadAction == Tmpl(Map1(Key.Id, Str(Txt.StaticValue)), Map1(Key.X, Str(Txt.Guid)))
TemplateUnknownFn == Tmpl(Map1(Key.Id, Str(Txt.UnknownFn)), Map1(Key.X, Str(Txt.RefId)))
TemplateYamlMap == Tmpl(Map1(Key.Id, Str(Txt.Guid)), Map2(Key.X, Str(Txt.RefId), Key.K, YamlMap))
TemplateSay == Tmpl(Map1(Key.Id, Bool(<<"t", "r", "u", "e">>)), Map1(Key.X, Str(Txt.SayId)))

Templates ==
    {TemplateLiteral, TemplateGuid, TemplateMissing, TemplateQuote,
     TemplateBackslash, TemplateMixed, TemplateTime, TemplateBadAction,
     TemplateUnknownFn, TemplateYamlMap, TemplateSay}

\* Whether json.Marshal fails on the value (an unsupported type in it).
RECURSIVE MarshalFails(_)
MarshalFails(v) ==
    CASE v.kind = "yamlmap" -> TRUE
      [] v.kind = "object" -> \E k \in DOMAIN v.members : MarshalFails(v.members[k])
      [] OTHER -> FALSE

(***************************************************************************)
(* The Generator and the goroutines that call Generate on it.              *)
(***************************************************************************)
VARIABLES
    template,   \* g.template: the Template's Substitution and Template
    loaded,     \* the Template as NewGenerator loaded it
    mu,         \* g.mu: the readers holding it, and whether a writer does
    pc,         \* where each caller is in Generate
    ncalls,     \* the Generate calls each caller has started
    todo,       \* the keys buildSubstitutions has still to range over
    result,     \* buildSubstitutions' map, per call
    evaluated,  \* what each call's own loop iterations evaluated, per key
    ret,        \* what each caller's last Generate returned: bytes, err
    crashed,    \* a panic has ended the process
    ev          \* a function of the program, applied to an input

\* NewGenerator's call: its path, the file there, and what it returned.
VARIABLES newgen

\* run's task function, one execution after the other.
VARIABLES
    generators, \* run's generators: a topic and a batch size per payload
    task,       \* taskFunc: where it is, its execution, what it returned
    taskPc,     \* where each payload's goroutine is
    messages,   \* each goroutine's messages slice
    sends,      \* the SendBatch calls of each goroutine in this execution
    errChan     \* the errors in errChan, in the order they were sent

taskVars == <<generators, task, taskPc, messages, sends, errChan>>

\* The Scheduler and the goroutines that call its API.
VARIABLES
    sched,      \* the Scheduler: its fields, and the goroutines of each Start
    api         \* the callers of Start, Stop and IsRunning

schedVars == <<sched, api>>

\* The program around the Generator: NewGenerator's call and the task.
runVars == <<newgen, taskVars, schedVars>>

vars == <<template, loaded, mu, pc, ncalls, todo, result, evaluated, ret,
          crashed, ev, runVars>>
genVars == <<template, loaded, mu, pc, ncalls, todo, result, evaluated, ret,
             crashed>>

Callers == 1..NumCallers

EmptyMap == [x \in {} |-> None]
NoReturn == [bytes |-> None, err |-> None]
EvIdle == [stage |-> "idle"]

\* Nothing of the program around the Generator is running: NewGenerator
\* has returned it, and no task function is defined.
TaskIdle ==
    /\ generators = <<>>
    /\ task = [stage |-> "idle", exec |-> 0, err |-> <<>>]
    /\ taskPc = <<>>
    /\ messages = <<>>
    /\ sends = <<>>
    /\ errChan = <<>>

\* No Scheduler has been made.
SchedIdle ==
    /\ sched = [nil |-> TRUE]
    /\ api = <<>>

RunIdle ==
    /\ newgen = [stage |-> "returned", err |-> [msg |-> None, causes |-> <<>>]]
    /\ TaskIdle
    /\ SchedIdle

\* How Generate takes g.mu: "R" is RLock/RUnlock, "W" is Lock/Unlock.
LockKindExclusive == "W"
LockKind == "R"

\* sync.RWMutex: RLock waits while a writer holds the lock, Lock while
\* anyone does.
CanAcquire(m, kind) ==
    IF kind = "R" THEN ~m.writer ELSE ~m.writer /\ m.readers = 0
Acquire(m, kind) ==
    IF kind = "R" THEN [m EXCEPT !.readers = @ + 1] ELSE [m EXCEPT !.writer = TRUE]
Release(m, kind) ==
    IF kind = "R" THEN [m EXCEPT !.readers = @ - 1] ELSE [m EXCEPT !.writer = FALSE]

\* The map a call's buildSubstitutions fills: one of its own.
ResultSlotShared(p) == 1
ResultSlot(p) == p

\* g.template.Substitution after an iteration has evaluated key: the loop
\* only reads it.
SubstitutionStoredInPlace(substitution, key, val) ==
    [substitution EXCEPT ![key] = val]
SubstitutionAfterStore(substitution, key, val) == substitution

\* One iteration's outcomes for a value: a value that is no string is kept,
\* a string is processed.
EvaluatedEntries(value) ==
    IF value.kind # "string"
    THEN {[val |-> value, err |-> None, fn |-> <<>>]}
    ELSE {[val |-> Str(o.val), err |-> o.err, fn |-> o.fn] :
            o \in processValue(value.text)}

Init ==
    /\ template \in Templates
    /\ loaded = template
    /\ mu = [readers |-> 0, writer |-> FALSE]
    /\ pc = [p \in Callers |-> "idle"]
    /\ ncalls = [p \in Callers |-> 0]
    /\ todo = [p \in Callers |-> {}]
    /\ result = [p \in Callers |-> EmptyMap]
    /\ evaluated = [p \in Callers |-> EmptyMap]
    /\ ret = [p \in Callers |-> NoReturn]
    /\ crashed = FALSE
    /\ ev = EvIdle
    /\ RunIdle

\* A goroutine calls Generate; what its last call returned is gone.
GenerateCall(p) ==
    /\ ~crashed
    /\ pc[p] = "idle"
    /\ ncalls[p] < MaxCalls
    /\ pc' = [pc EXCEPT ![p] = "lock"]
    /\ ncalls' = [ncalls EXCEPT ![p] = @ + 1]
    /\ ret' = [ret EXCEPT ![p] = NoReturn]
    /\ UNCHANGED <<template, loaded, mu, todo, result, evaluated, crashed, ev, runVars>>

\* g.mu.RLock()
GenerateRLock(p) ==
    /\ ~crashed
    /\ pc[p] = "lock"
    /\ CanAcquire(mu, LockKind)
    /\ mu' = Acquire(mu, LockKind)
    /\ pc' = [pc EXCEPT ![p] = "make"]
    /\ UNCHANGED <<template, loaded, ncalls, todo, result, evaluated, ret,
                   crashed, ev, runVars>>

\* buildSubstitutions: result := make(map[string]interface{}), and the range
\* over g.template.Substitution begins.
buildSubstitutionsMake(p) ==
    /\ ~crashed
    /\ pc[p] = "make"
    /\ result' = [result EXCEPT ![ResultSlot(p)] = EmptyMap]
    /\ todo' = [todo EXCEPT ![p] = DOMAIN template.Substitution]
    /\ pc' = [pc EXCEPT ![p] = "build"]
    /\ UNCHANGED <<template, loaded, mu, ncalls, evaluated, ret, crashed, ev, runVars>>

\* One iteration of the range, on any key not yet visited.  An error of
\* processValue ends Generate with that error; a panic ends the process.
buildSubstitutionsStep(p) ==
    /\ ~crashed
    /\ pc[p] = "build"
    /\ \E key \in todo[p] \cap DOMAIN template.Substitution :
       \E o \in EvaluatedEntries(template.Substitution[key]) :
          IF o.err = "panic"
          THEN /\ crashed' = TRUE
               /\ UNCHANGED <<template, loaded, mu, pc, ncalls, todo, result,
                              evaluated, ret, ev, runVars>>
          ELSE IF o.err # None
          THEN /\ ret' = [ret EXCEPT ![p] = [bytes |-> None, err |-> o.err]]
               /\ result' = [result EXCEPT ![ResultSlot(p)] = EmptyMap]
               /\ todo' = [todo EXCEPT ![p] = {}]
               /\ pc' = [pc EXCEPT ![p] = "unlock"]
               /\ UNCHANGED <<template, loaded, mu, ncalls, evaluated,
                              crashed, ev, runVars>>
          ELSE /\ result' = [result EXCEPT ![ResultSlot(p)] =
                               [k \in DOMAIN @ \cup {key} |->
                                   IF k = key THEN o.val ELSE @[k]]]
               /\ evaluated' = [evaluated EXCEPT ![p] =
                                  [k \in DOMAIN @ \cup {key} |->
                                      IF k = key THEN o.val ELSE @[k]]]
               /\ template' = [template EXCEPT !.Substitution =
                                  SubstitutionAfterStore(@, key, o.val)]
               /\ todo' = [todo EXCEPT ![p] = @ \ {key}]
               /\ UNCHANGED <<loaded, mu, pc, ncalls, ret, crashed, ev, runVars>>

\* The range is over: buildSubstitutions returns its map.
buildSubstitutionsReturn(p) ==
    /\ ~crashed
    /\ pc[p] = "build"
    /\ todo[p] = {}
    /\ pc' = [pc EXCEPT ![p] = "render"]
    /\ UNCHANGED <<template, loaded, mu, ncalls, todo, result, evaluated,
                   ret, crashed, ev, runVars>>

\* json.Marshal(g.template.Template) and applySubstitutions.
GenerateRender(p) ==
    /\ ~crashed
    /\ pc[p] = "render"
    /\ LET out == IF MarshalFails(Obj(template.Template))
                  THEN Fail("failed to marshal template")
                  ELSE applySubstitutions(jsonMarshal(template.Template),
                                          result[ResultSlot(p)])
       IN  ret' = [ret EXCEPT ![p] =
                     [bytes |-> IF out.err = None THEN out.val ELSE None,
                      err |-> out.err]]
    /\ result' = [result EXCEPT ![ResultSlot(p)] = EmptyMap]
    /\ pc' = [pc EXCEPT ![p] = "unlock"]
    /\ UNCHANGED <<template, loaded, mu, ncalls, todo, evaluated, crashed, ev, runVars>>

\* The deferred g.mu.RUnlock(), and Generate returns: its locals are gone.
GenerateRUnlock(p) ==
    /\ ~crashed
    /\ pc[p] = "unlock"
    /\ mu' = Release(mu, LockKind)
    /\ pc' = [pc EXCEPT ![p] = "idle"]
    /\ evaluated' = [evaluated EXCEPT ![p] = EmptyMap]
    /\ UNCHANGED <<template, loaded, ncalls, todo, result, ret, crashed, ev, runVars>>

Next ==
    \E p \in Callers :
        \/ GenerateCall(p)
        \/ GenerateRLock(p)
        \/ buildSubstitutionsMake(p)
        \/ buildSubstitutionsStep(p)
        \/ buildSubstitutionsReturn(p)
        \/ GenerateRender(p)
        \/ GenerateRUnlock(p)

Spec == Init /\ [][Next]_vars

(***************************************************************************)
(* The evaluator on its own: processValue applied to a substitution        *)
(* string, generateRandomNumber applied to a digit count.                  *)
(***************************************************************************)
EvalTxt == [
    \* {{@rnd}}
    RndNoArg |->
        <<"{", "{", "@", "r", "n", "d", "}", "}">>,
    \* {{@rnd|}}
    RndEmptyArg |->
        <<"{", "{", "@", "r", "n", "d", "|", "}", "}">>,
    \* {{@rnd|000}}
    RndZeros |->
        <<"{", "{", "@", "r", "n", "d", "|", "0", "0", "0", "}",
        "}">>,
    \* {{ @rnd|007 }}
    RndLeadingZero |->
        <<"{", "{", " ", "@", "r", "n", "d", "|", "0", "0",
        "7", " ", "}", "}">>,
    \* {{@rnd|99999999999999999999}}
    RndHuge |->
        <<"{", "{", "@", "r", "n", "d", "|", "9", "9", "9", "9", "9",
        "9", "9", "9", "9", "9", "9", "9", "9", "9", "9", "9", "9", "9", "9",
        "9", "}", "}">>,
    \* {{@rnd|-5}}
    RndNegative |->
        <<"{", "{", "@", "r", "n", "d", "|", "-", "5", "}", "}">>,
    \* {{@rnd|5x}}
    RndLetters |->
        <<"{", "{", "@", "r", "n", "d", "|", "5", "x", "}", "}">>,
    \* {{@now}}
    NowNoArg |->
        <<"{", "{", "@", "n", "o", "w", "}", "}">>,
    \* {{@now|RFC3339}}
    NowRFC3339 |->
        <<"{", "{", "@", "n", "o", "w", "|", "R", "F", "C", "3",
        "3", "3", "9", "}", "}">>,
    \* {{ @now|unixmilli }}
    NowLower |->
        <<"{", "{", " ", "@", "n", "o", "w", "|", "u", "n", "i",
        "x", "m", "i", "l", "l", "i", " ", "}", "}">>,
    \* {{@now|Jan2006}}
    NowCustom |->
        <<"{", "{", "@", "n", "o", "w", "|", "J", "a", "n", "2",
        "0", "0", "6", "}", "}">>,
    \* {{@now|2006-01}}
    NowDash |->
        <<"{", "{", "@", "n", "o", "w", "|", "2", "0", "0", "6", "-",
        "0", "1", "}", "}">>,
    \* {{ @guid }}
    GuidSpaced |->
        <<"{", "{", " ", "@", "g", "u", "i", "d", " ", "}", "}">>,
    \* id-{{@guid}}-x
    GuidInside |->
        <<"i", "d", "-", "{", "{", "@", "g", "u", "i", "d", "}",
        "}", "-", "x">>,
    \* {{@GUID}}
    GuidUpper |->
        <<"{", "{", "@", "G", "U", "I", "D", "}", "}">>,
    \* {{@guid|x}}
    GuidArg |->
        <<"{", "{", "@", "g", "u", "i", "d", "|", "x", "}", "}">>,
    \* {{@ guid}}
    GuidGap |->
        <<"{", "{", "@", " ", "g", "u", "i", "d", "}", "}">>,
    \* {@guid}
    GuidOneBrace |->
        <<"{", "@", "g", "u", "i", "d", "}">>,
    \* {{guid}}
    NoAt |->
        <<"{", "{", "g", "u", "i", "d", "}", "}">>,
    \* {{@rnd|3}}{{@guid}}
    RndThenGuid |->
        <<"{", "{", "@", "r", "n", "d", "|", "3", "}", "}", "{",
        "{", "@", "g", "u", "i", "d", "}", "}">>,
    \* {{@now}} {{@uuid}}
    NowThenUuid |->
        <<"{", "{", "@", "n", "o", "w", "}", "}", " ", "{", "{",
        "@", "u", "u", "i", "d", "}", "}">>,
    \* {{@uuid}}{{@guid}}
    UuidThenGuid |->
        <<"{", "{", "@", "u", "u", "i", "d", "}", "}", "{", "{",
        "@", "g", "u", "i", "d", "}", "}">>,
    \* {{@rnd|2}}{{@now|Unix}}
    RndThenNow |->
        <<"{", "{", "@", "r", "n", "d", "|", "2", "}", "}", "{",
        "{", "@", "n", "o", "w", "|", "U", "n", "i", "x", "}", "}">>,
    \* {{@rnd|1}}{{@now}}{{@uuid}}{{@guid}}
    AllFour |->
        <<"{", "{", "@", "r", "n", "d", "|", "1", "}", "}", "{", "{",
        "@", "n", "o", "w", "}", "}", "{", "{", "@", "u", "u", "i", "d", "}",
        "}", "{", "{", "@", "g", "u", "i", "d", "}", "}">>
]

\* {{@rnd|N}} and {{ @rnd|N }}
RndArg(N) == Open \o <<"@">> \o Fn.Rnd \o <<"|">> \o NatToText(N) \o Close
RndArgSpaced(N) ==
    Open \o <<" ", "@">> \o Fn.Rnd \o <<"|">> \o NatToText(N) \o <<" ">> \o Close

\* Strings with several DSL tokens, with one, and with none that matches.
SeveralTokens ==
    {EvalTxt.RndThenGuid, EvalTxt.NowThenUuid, EvalTxt.UuidThenGuid, EvalTxt.RndThenNow, EvalTxt.AllFour}
LookAlikes ==
    {Txt.UnknownFn, EvalTxt.RndNegative, EvalTxt.RndLetters, EvalTxt.NowDash, EvalTxt.GuidUpper,
     EvalTxt.GuidArg, EvalTxt.GuidGap, EvalTxt.GuidOneBrace, EvalTxt.NoAt}

\* One token of each function, and each alone, after a text, before a text
\* and between two: id-<token>-x.
DSLTokens == {Txt.Guid, Txt.Uuid, Txt.NowUnix, EvalTxt.NowNoArg, RndArg(2)}
Around(tok) ==
    {pre \o tok \o post : pre \in {<<>>, <<"i", "d", "-">>}, post \in {<<>>, <<"-", "x">>}}

EvalValues ==
    {RndArg(N) : N \in 0..MaxDigitsArg}
    \cup UNION {Around(tok) : tok \in DSLTokens}
    \cup {RndArgSpaced(N) : N \in 0..MaxDigitsArg}
    \cup {EvalTxt.RndNoArg, EvalTxt.RndEmptyArg, EvalTxt.RndZeros, EvalTxt.RndLeadingZero, EvalTxt.RndHuge}
    \cup {EvalTxt.NowNoArg, EvalTxt.NowRFC3339, EvalTxt.NowLower, EvalTxt.NowCustom, Txt.NowUnix}
    \cup {Txt.Guid, Txt.Uuid, EvalTxt.GuidSpaced, EvalTxt.GuidInside}
    \cup SeveralTokens
    \cup LookAlikes
    \cup {Txt.StaticValue, Txt.Quote, <<>>}

\* Digit counts handed to generateRandomNumber.
EvalDigits ==
    {GoInt(n) : n \in (0 - 2)..MaxDigitsArg}
    \cup {[neg |-> FALSE, mag |-> MaxInt64], [neg |-> TRUE, mag |-> MaxInt64]}

InitEval ==
    /\ template = TemplateLiteral
    /\ loaded = template
    /\ mu = [readers |-> 0, writer |-> FALSE]
    /\ pc = [p \in Callers |-> "idle"]
    /\ ncalls = [p \in Callers |-> 0]
    /\ todo = [p \in Callers |-> {}]
    /\ result = [p \in Callers |-> EmptyMap]
    /\ evaluated = [p \in Callers |-> EmptyMap]
    /\ ret = [p \in Callers |-> NoReturn]
    /\ crashed = FALSE
    /\ ev \in {[stage |-> "value", value |-> v] : v \in EvalValues}
              \cup {[stage |-> "digits", digits |-> d] : d \in EvalDigits}
    /\ RunIdle

\* processValue(value) returns.
EvalProcessValue ==
    /\ ev.stage = "value"
    /\ \E o \in processValue(ev.value) :
          ev' = [stage |-> "processed", value |-> ev.value, out |-> o]
    /\ UNCHANGED <<genVars, runVars>>

\* generateRandomNumber(digits) returns.
EvalRandomNumber ==
    /\ ev.stage = "digits"
    /\ \E o \in generateRandomNumber(ev.digits) :
          ev' = [stage |-> "generated", digits |-> ev.digits, out |-> o]
    /\ UNCHANGED <<genVars, runVars>>

NextEval == EvalProcessValue \/ EvalRandomNumber

SpecEval == InitEval /\ [][NextEval]_vars

(***************************************************************************)
(* Properties of Generate (specification Spec).                            *)
(***************************************************************************)
\* The names the placeholders of a text refer to.
PlaceholderNames(s) ==
    {ActionAt(s, i).name :
        i \in {j \in 1..Len(s) : HasPrefixAt(s, j, Open) /\ ActionAt(s, j).ok}}

\* The placeholder names of the `template` mapping of t.
TemplatePlaceholders(t) ==
    IF MarshalFails(Obj(t.Template)) THEN {}
    ELSE PlaceholderNames(jsonMarshal(t.Template))

\* Generate has set its return values (and has not begun another call).
Returned(p) == pc[p] = "unlock" \/ (pc[p] = "idle" /\ ncalls[p] > 0)

\* C1: whenever the template holds a placeholder whose name is no key of
\* `substitution`, Generate returns an error and no bytes.
C1_MissingKeyIsError ==
    \A p \in Callers :
        (/\ Returned(p)
         /\ ~(TemplatePlaceholders(loaded) \subseteq DOMAIN loaded.Substitution))
        => (ret[p].err # None /\ ret[p].bytes = None)

\* The errors of a call that the random source's failure explains.
RandomErrors == {"random bytes", "random number"}

\* C2: concurrent Generate calls never wait for one another: no writer ever
\* holds g.mu, so a caller at g.mu.RLock() can always take its step; and a
\* call fails only for a reason of its own (the template does not marshal
\* or parse, or the call's own read of the random source failed).
C2_NeverWaits ==
    /\ ~mu.writer
    /\ \A p \in Callers :
          (pc[p] = "lock" /\ ~crashed) => ENABLED GenerateRLock(p)
    /\ \A p \in Callers :
          (Returned(p) /\ ret[p].err # None) =>
              \/ ret[p].err \in RandomErrors
              \/ MarshalFails(Obj(loaded.Template))
              \/ ~ParsesFrom(jsonMarshal(loaded.Template), 1)

\* Every caller is inside Generate, holding the read lock, at once, and one
\* of them has rendered its message.
C2_Witness ==
    /\ mu.readers = NumCallers
    /\ \A p \in Callers : pc[p] \in {"make", "build", "render", "unlock"}
    /\ \E p \in Callers : pc[p] = "unlock" /\ ret[p].err = None

\* C3: the Generator's Template is the one loaded at construction, whatever
\* Generate calls have run or are running.
C3_TemplateUnchanged == template = loaded

\* One call has returned a message and another an error, a third being
\* possibly under way.
C3_Witness ==
    \E p, q \in Callers :
        /\ Returned(p) /\ ret[p].err = None /\ ret[p].bytes # None
        /\ Returned(q) /\ ret[q].err # None
        /\ DOMAIN loaded.Substitution # {}

\* C4: the map a call renders with holds exactly what that call's own
\* iterations evaluated, and its output is the template rendered with those
\* values.
C4_OwnSubstitutions ==
    \A p \in Callers :
        /\ pc[p] = "render" => result[p] = evaluated[p]
        /\ (pc[p] = "unlock" /\ ret[p].err = None) =>
              ret[p].bytes =
                  ExecuteFrom(jsonMarshal(loaded.Template), 1, evaluated[p])

\* Two calls under way at once have rendered different messages, each with
\* its own generated value.
C4_Witness ==
    \E p, q \in Callers :
        /\ p # q
        /\ pc[p] = "unlock" /\ pc[q] = "unlock"
        /\ ret[p].err = None /\ ret[q].err = None
        /\ ret[p].bytes # ret[q].bytes
        /\ evaluated[p] # evaluated[q]

\* C5: when the template marshals to JSON and every placeholder names a key
\* of `substitution`, the bytes Generate returns are valid JSON.
C5_OutputIsValidJSON ==
    \A p \in Callers :
        (/\ Returned(p)
         /\ ret[p].err = None
         /\ ~MarshalFails(Obj(loaded.Template))
         /\ TemplatePlaceholders(loaded) \subseteq DOMAIN loaded.Substitution)
        => ValidJSON(ret[p].bytes)

\* No substitution value of t is a string with a DSL function in it.
LiteralOnly(t) ==
    \A k \in DOMAIN t.Substitution :
        LET v == t.Substitution[k]
        IN  v.kind = "string" =>
              /\ ~MatchGuid(v.text).found
              /\ ~MatchUuid(v.text).found
              /\ ~MatchNow(v.text).found
              /\ ~MatchRnd(v.text).found

\* C6: with literal substitution values only, every call returns the same:
\* the marshalled template with each placeholder replaced by the literal;
\* {id: static-value} and {x: {{.id}}} give {"x":"static-value"}.
C6_LiteralsDeterministic ==
    \A p \in Callers :
        (Returned(p) /\ LiteralOnly(loaded)) =>
            /\ ret[p].err = None =>
                  ret[p].bytes = ExecuteFrom(jsonMarshal(loaded.Template), 1,
                                             loaded.Substitution)
            /\ \A q \in Callers : Returned(q) => ret[q] = ret[p]
            /\ loaded = TemplateLiteral =>
                  (ret[p].err = None /\ ret[p].bytes = Txt.ExpectedStatic)

\* A caller's second call and another caller's call have both returned
\* {"x":"static-value"}.
C6_Witness ==
    /\ loaded = TemplateLiteral
    /\ \E p, q \in Callers :
          /\ p # q
          /\ ncalls[p] = MaxCalls /\ Returned(p) /\ Returned(q)
          /\ ret[p].bytes = Txt.ExpectedStatic
          /\ ret[q].bytes = Txt.ExpectedStatic

(***************************************************************************)
(* Properties of the evaluator (specification SpecEval).                   *)
(***************************************************************************)
\* processValue, or generateRandomNumber, has returned a value.
Processed == ev.stage = "processed" /\ ev.out.err = None
Generated == ev.stage = "generated" /\ ev.out.err = None

\* A text of exactly n characters, all decimal digits, whose value is less
\* than 10^n.
IsDigits(t, n) ==
    /\ Len(t) = n
    /\ \A i \in 1..Len(t) : t[i] \in Digit
    /\ BigLess(StripZeros(t), <<"1">> \o Repeat("0", n))

\* C7: for 0 < N <= 18 the value of {{@rnd|N}}, and of
\* generateRandomNumber(N), is N decimal digits, of value at most 10^N - 1.
C7_RndHasNDigits ==
    \A N \in 1..MaxRndDigits :
        /\ (Processed /\ ev.value \in {RndArg(N), RndArgSpaced(N)})
              => IsDigits(ev.out.val, N)
        /\ (Generated /\ ev.digits = GoInt(N)) => IsDigits(ev.out.val, N)

\* {{@rnd|18}} has given 999999999999999999.
C7_Witness ==
    /\ Processed
    /\ ev.value = RndArg(MaxRndDigits)
    /\ ev.out.val = Repeat("9", MaxRndDigits)

\* C8: a digit count above 18, also one past the range of int, gives 18
\* digits; a digit count of 0 or less gives "0" and never an error.
C8_DigitsClamped ==
    /\ \A N \in (MaxRndDigits + 1)..MaxDigitsArg :
          /\ (Processed /\ ev.value \in {RndArg(N), RndArgSpaced(N)})
                => IsDigits(ev.out.val, MaxRndDigits)
          /\ (Generated /\ ev.digits = GoInt(N))
                => IsDigits(ev.out.val, MaxRndDigits)
    /\ (Processed /\ ev.value = EvalTxt.RndHuge) => IsDigits(ev.out.val, MaxRndDigits)
    /\ (Generated /\ ev.digits = [neg |-> FALSE, mag |-> MaxInt64])
          => IsDigits(ev.out.val, MaxRndDigits)
    /\ (ev.stage = "processed" /\ ev.value \in {RndArg(0), RndArgSpaced(0), EvalTxt.RndZeros})
          => ev.out = [val |-> <<"0">>, err |-> None, fn |-> <<"rnd">>]
    /\ (ev.stage = "generated" /\ (ev.digits.neg \/ ev.digits.mag = <<"0">>))
          => ev.out = Ok(<<"0">>)

\* A digit count of twenty 9s has given 999999999999999999.
C8_Witness ==
    /\ Processed
    /\ ev.value = EvalTxt.RndHuge
    /\ ev.out.val = Repeat("9", MaxRndDigits)

\* The functions whose pattern matches the string, in the order guid, uuid,
\* now, rnd.
MatchingFunctions(s) ==
    (IF MatchGuid(s).found THEN <<"guid">> ELSE <<>>)
    \o (IF MatchUuid(s).found THEN <<"uuid">> ELSE <<>>)
    \o (IF MatchNow(s).found THEN <<"now">> ELSE <<>>)
    \o (IF MatchRnd(s).found THEN <<"rnd">> ELSE <<>>)

\* The [val, err] outcomes of one function on the string.
FunctionOutcomes(fn, s) ==
    CASE fn = "guid" -> generateGUID
      [] fn = "uuid" -> uuidNew
      [] fn = "now" -> nowOutcomes(s)
      [] fn = "rnd" -> rndOutcomes(s)

\* C9: processValue runs at most one DSL function: the first, in the order
\* guid, uuid, now, rnd, whose pattern matches; its outcome is the result.
C9_FirstMatchWins ==
    ev.stage = "processed" =>
        LET fns == MatchingFunctions(ev.value)
        IN  /\ Len(ev.out.fn) <= 1
            /\ fns # <<>> =>
                  /\ ev.out.fn = <<fns[1]>>
                  /\ [val |-> ev.out.val, err |-> ev.out.err]
                        \in FunctionOutcomes(fns[1], ev.value)

\* A string that matches all four patterns, rnd first in the text, has been
\* given a GUID.
C9_Witness ==
    /\ Processed
    /\ ev.value = EvalTxt.AllFour
    /\ MatchingFunctions(ev.value) = <<"guid", "uuid", "now", "rnd">>
    /\ ev.out.fn = <<"guid">>
    /\ Len(ev.out.val) = 36

\* C10: a string that matches none of the four patterns, a look-alike of a
\* DSL token included, is returned as it is, without an error.
C10_UnmatchedIsLiteral ==
    (ev.stage = "processed"
        /\ (ev.value \in LookAlikes \/ MatchingFunctions(ev.value) = <<>>))
    => ev.out = [val |-> ev.value, err |-> None, fn |-> <<>>]

\* {{@foo}} has been returned as {{@foo}}.
C10_Witness ==
    /\ Processed
    /\ ev.value = Txt.UnknownFn
    /\ ev.out.val = Txt.UnknownFn

\* The thirteen named formats, as formatTime compares them.
NamedFormats == {Name[k] : k \in DOMAIN Name}

\* C13: the value of {{@now}} is the current time in RFC3339, and the value
\* of {{@now|FORMAT}} with a FORMAT that is none of the thirteen names is
\* the current time laid out by FORMAT, character for character as it is
\* written in the template.
C13_NowFormatAsWritten ==
    (Processed /\ MatchingFunctions(ev.value) # <<>>
        /\ MatchingFunctions(ev.value)[1] = "now")
    => LET format == MatchNow(ev.value).arg
       IN  /\ format = <<>>
                => ev.out.val \in {TimeFormat(t, Layout.RFC3339) : t \in ClockSamples}
           /\ (format # <<>> /\ ToUpper(format) \notin NamedFormats)
                => ev.out.val \in {TimeFormat(t, format) : t \in ClockSamples}

(***************************************************************************)
(* config.Load.  A configuration file is the mapping yaml.Unmarshal reads   *)
(* from it, from key paths to values: a key that is not written is not in  *)
(* its domain.  A time.Duration is a number of seconds.                     *)
(***************************************************************************)
DefaultTimeout == 10
DefaultKafkaBatchSize == 100
DefaultPayloadBatchSize == 1
DefaultInterval == 5
DefaultWorkerPoolSize == 1

CfgTxt == [
    \* ${TEST_KAFKA_BROKERS}
    RefBrokers |->
        <<"$", "{", "T", "E", "S", "T", "_", "K", "A", "F", "K", "A", "_",
        "B", "R", "O", "K", "E", "R", "S", "}">>,
    \* ${TEST_KAFKA_TOPIC}
    RefTopic |->
        <<"$", "{", "T", "E", "S", "T", "_", "K", "A", "F", "K", "A", "_",
        "T", "O", "P", "I", "C", "}">>,
    \* TEST_KAFKA_BROKERS
    VarBrokers |->
        <<"T", "E", "S", "T", "_", "K", "A", "F", "K", "A", "_", "B", "R",
        "O", "K", "E", "R", "S">>,
    \* TEST_KAFKA_TOPIC
    VarTopic |->
        <<"T", "E", "S", "T", "_", "K", "A", "F", "K", "A", "_", "T", "O",
        "P", "I", "C">>,
    \* testhost:9092
    EnvBrokers |->
        <<"t", "e", "s", "t", "h", "o", "s", "t", ":", "9", "0", "9", "2">>,
    \* test-env-topic
    EnvTopic |->
        <<"t", "e", "s", "t", "-", "e", "n", "v", "-", "t", "o", "p", "i",
        "c">>,
    \* localhost:9092
    Localhost |->
        <<"l", "o", "c", "a", "l", "h", "o", "s", "t", ":", "9", "0", "9",
        "2">>,
    \* test-topic
    TestTopic |->
        <<"t", "e", "s", "t", "-", "t", "o", "p", "i", "c">>
]

\* The environment of the process: the variables that are set.
Environments ==
    {EmptyMap,
     (CfgTxt.VarBrokers :> CfgTxt.EnvBrokers) @@ (CfgTxt.VarTopic :> CfgTxt.EnvTopic)}

\* What is at the path given to Load: no readable file, a file that is not
\* YAML of the Config's shape, or a document with some of the fields
\* Validate requires, of the scheduler section, and of the fields that
\* have a default.
ConfigFiles ==
    LET required ==
            {b @@ t @@ p :
                b \in {EmptyMap, "kafka.brokers" :> <<>>,
                       "kafka.brokers" :> <<CfgTxt.Localhost>>,
                       "kafka.brokers" :> <<CfgTxt.RefBrokers>>},
                t \in {EmptyMap, "kafka.topic" :> CfgTxt.TestTopic,
                       "kafka.topic" :> CfgTxt.RefTopic},
                p \in {EmptyMap, "payload.template_path" :> "./test.yaml"}}
        scheduler ==
            {EmptyMap}
            \cup {("scheduler" :> TRUE) @@ e @@ i @@ w :
                    e \in {EmptyMap, "scheduler.enabled" :> TRUE},
                    i \in {EmptyMap} \cup {"scheduler.interval" :> n : n \in {0 - 1, 1}},
                    w \in {EmptyMap}
                          \cup {"scheduler.worker_pool_size" :> n : n \in {0 - 1, 2}}}
        optional ==
            {c @@ t @@ b @@ l @@ f @@ p :
                c \in {EmptyMap, "kafka.client_id" :> "test-client"},
                t \in {EmptyMap, "kafka.timeout" :> 5},
                b \in {EmptyMap, "kafka.batch_size" :> 50},
                l \in {EmptyMap, "logging.level" :> "debug"},
                f \in {EmptyMap, "logging.format" :> "json"},
                p \in {EmptyMap, "payload.batch_size" :> 10}}
    IN  {[kind |-> "unreadable"], [kind |-> "malformed"]}
        \cup {[kind |-> "yaml", fields |-> r @@ x @@ o] :
                r \in required, x \in scheduler, o \in optional}

\* A nil pointer: Config.Scheduler without a scheduler section, and the
\* *Config Load returns with an error.
Nil == [nil |-> TRUE]

\* yaml.Unmarshal(data, &cfg) on a zero Config.
yamlUnmarshalConfig(fields) ==
    LET Field(key, zero) == IF key \in DOMAIN fields THEN fields[key] ELSE zero
    IN
    [Brokers |-> Field("kafka.brokers", <<>>),
     Topic |-> Field("kafka.topic", <<>>),
     ClientID |-> Field("kafka.client_id", ""),
     Timeout |-> Field("kafka.timeout", 0),
     KafkaBatchSize |-> Field("kafka.batch_size", 0),
     Scheduler |->
        IF "scheduler" \in DOMAIN fields
        THEN [nil |-> FALSE,
              Enabled |-> Field("scheduler.enabled", FALSE),
              Interval |-> Field("scheduler.interval", 0),
              WorkerPoolSize |-> Field("scheduler.worker_pool_size", 0)]
        ELSE Nil,
     Level |-> Field("logging.level", ""),
     Format |-> Field("logging.format", ""),
     TemplatePath |-> Field("payload.template_path", ""),
     PayloadBatchSize |-> Field("payload.batch_size", 0)]

\* Every field is given its default.
DefaultAlways(value, zero, default) == default

\* A field that is not the zero value of its type is kept.
DefaultUnlessSet(value, zero, default) == IF value = zero THEN default ELSE value

setDefaults(c) ==
    [c EXCEPT
        !.ClientID = DefaultUnlessSet(@, "", "kafka-pusher"),
        !.Timeout = DefaultUnlessSet(@, 0, DefaultTimeout),
        !.KafkaBatchSize = DefaultUnlessSet(@, 0, DefaultKafkaBatchSize),
        !.Level = DefaultUnlessSet(@, "", "info"),
        !.Format = DefaultUnlessSet(@, "", "text"),
        !.PayloadBatchSize = DefaultUnlessSet(@, 0, DefaultPayloadBatchSize),
        !.Scheduler =
            IF ~@.nil /\ @.Enabled
            THEN [@ EXCEPT
                    !.Interval = DefaultUnlessSet(@, 0, DefaultInterval),
                    !.WorkerPoolSize = DefaultUnlessSet(@, 0, DefaultWorkerPoolSize)]
            ELSE @]

\* A Validate that looks at the required fields only.
ValidateRequiredOnly(c) ==
    CASE Len(c.Brokers) = 0 -> "kafka.brokers is required"
      [] c.Topic = <<>> -> "kafka.topic is required"
      [] c.TemplatePath = "" -> "payload.template_path is required"
      [] OTHER -> None

\* Config.Validate: the first requirement that is not met, or None.
Validate(c) ==
    CASE Len(c.Brokers) = 0 -> "kafka.brokers is required"
      [] c.Topic = <<>> -> "kafka.topic is required"
      [] c.TemplatePath = "" -> "payload.template_path is required"
      [] ~c.Scheduler.nil /\ c.Scheduler.Enabled /\ c.Scheduler.Interval <= 0 ->
            "scheduler.interval must be positive"
      [] ~c.Scheduler.nil /\ c.Scheduler.Enabled /\ c.Scheduler.WorkerPoolSize < 1 ->
            "scheduler.worker_pool_size must be at least 1"
      [] OTHER -> None

\* Load(path): the *Config and the error it returns.
Load(file) ==
    CASE file.kind = "unreadable" ->
            [cfg |-> Nil, err |-> "failed to read config file"]
      [] file.kind = "malformed" ->
            [cfg |-> Nil, err |-> "failed to parse config file"]
      [] OTHER ->
            LET cfg == setDefaults(yamlUnmarshalConfig(file.fields))
            IN  IF Validate(cfg) # None
                THEN [cfg |-> Nil, err |-> "invalid configuration"]
                ELSE [cfg |-> cfg, err |-> None]

\* Load is given a path; setDefaults and Validate are given a Config, as
\* yaml.Unmarshal fills one.
InitConfig ==
    /\ template = TemplateLiteral
    /\ loaded = template
    /\ mu = [readers |-> 0, writer |-> FALSE]
    /\ pc = [p \in Callers |-> "idle"]
    /\ ncalls = [p \in Callers |-> 0]
    /\ todo = [p \in Callers |-> {}]
    /\ result = [p \in Callers |-> EmptyMap]
    /\ evaluated = [p \in Callers |-> EmptyMap]
    /\ ret = [p \in Callers |-> NoReturn]
    /\ crashed = FALSE
    /\ ev \in {[stage |-> "file", file |-> f, env |-> e] :
                  f \in ConfigFiles, e \in Environments}
              \cup {[stage |-> "config", cfg |-> yamlUnmarshalConfig(f.fields)] :
                      f \in {g \in ConfigFiles : g.kind = "yaml"}}
    /\ RunIdle

\* Load(path) returns.
ConfigLoad ==
    /\ ev.stage = "file"
    /\ ev' = [stage |-> "loaded", file |-> ev.file, env |-> ev.env,
              out |-> Load(ev.file)]
    /\ UNCHANGED <<genVars, runVars>>

\* cfg.setDefaults(), on a Config and on what setDefaults has made of it.
ConfigSetDefaults ==
    /\ \/ /\ ev.stage = "config"
          /\ ev' = [stage |-> "defaulted", input |-> ev.cfg,
                    cfg |-> setDefaults(ev.cfg)]
       \/ /\ ev.stage = "defaulted"
          /\ ev' = [stage |-> "defaulted twice", input |-> ev.input,
                    once |-> ev.cfg, cfg |-> setDefaults(ev.cfg)]
    /\ UNCHANGED <<genVars, runVars>>

\* cfg.Validate(), on a Config with or without its defaults.
ConfigValidate ==
    /\ ev.stage \in {"config", "defaulted"}
    /\ ev' = [stage |-> "validated", cfg |-> ev.cfg, err |-> Validate(ev.cfg)]
    /\ UNCHANGED <<genVars, runVars>>

NextConfig == ConfigLoad \/ ConfigSetDefaults \/ ConfigValidate

SpecConfig == InitConfig /\ [][NextConfig]_vars

(***************************************************************************)
(* Properties of config.Load (specification SpecConfig).                   *)
(***************************************************************************)
\* Whether the text is ${VAR}, and the VAR it names.
IsEnvRef(s) ==
    /\ Len(s) > 3
    /\ HasPrefixAt(s, 1, <<"$", "{">>)
    /\ s[Len(s)] = "}"
    /\ \A i \in 3..(Len(s) - 1) : s[i] \in IdentChar
EnvRefName(s) == Slice(s, 3, Len(s))

\* What a value written in the file is to be loaded as: the value of the
\* variable it refers to when it is ${VAR} and VAR is set, the value itself
\* when it is no reference.
Expanded(s, env) ==
    IF IsEnvRef(s) /\ EnvRefName(s) \in DOMAIN env THEN env[EnvRefName(s)] ELSE s

\* Load has read a document and returned a Config.
LoadedConfig ==
    ev.stage = "loaded" /\ ev.file.kind = "yaml" /\ ev.out.err = None

\* C14: in the Config Load returns, a broker or a topic written as ${VAR},
\* with VAR set in the environment, is the value of VAR.
C14_EnvVarsExpanded ==
    LoadedConfig =>
        LET written == ev.file.fields
        IN  /\ \A i \in 1..Len(written["kafka.brokers"]) :
                  (IsEnvRef(written["kafka.brokers"][i])
                      /\ EnvRefName(written["kafka.brokers"][i]) \in DOMAIN ev.env)
                  => ev.out.cfg.Brokers[i] = Expanded(written["kafka.brokers"][i], ev.env)
            /\ (IsEnvRef(written["kafka.topic"])
                    /\ EnvRefName(written["kafka.topic"]) \in DOMAIN ev.env)
                  => ev.out.cfg.Topic = Expanded(written["kafka.topic"], ev.env)

\* Load has returned, for a file of any kind.
LoadReturned == ev.stage = "loaded"

\* What Validate requires of a Config.
BrokersEmpty(c) == Len(c.Brokers) = 0
TopicEmpty(c) == c.Topic = <<>>
TemplatePathEmpty(c) == c.TemplatePath = ""
SchedulerEnabled(c) == ~c.Scheduler.nil /\ c.Scheduler.Enabled
SchedulerInvalid(c) ==
    SchedulerEnabled(c)
    /\ (c.Scheduler.Interval <= 0 \/ c.Scheduler.WorkerPoolSize < 1)

\* C15: Load returns an error and no Config when, with the defaults
\* applied, the brokers, the topic or the template path are empty, or an
\* enabled scheduler has an interval not above 0 or a pool size below 1; a
\* Config it returns with the scheduler enabled has Interval > 0 and
\* WorkerPoolSize >= 1.
C15_LoadRejectsInvalid ==
    (LoadReturned /\ ev.file.kind = "yaml") =>
        LET c == setDefaults(yamlUnmarshalConfig(ev.file.fields))
        IN  /\ (BrokersEmpty(c) \/ TopicEmpty(c) \/ TemplatePathEmpty(c)
                    \/ SchedulerInvalid(c))
               => (ev.out.err # None /\ ev.out.cfg = Nil)
            /\ (ev.out.err = None /\ SchedulerEnabled(ev.out.cfg))
               => (ev.out.cfg.Scheduler.Interval > 0
                    /\ ev.out.cfg.Scheduler.WorkerPoolSize >= 1)

\* Load has rejected a file whose only fault is an enabled scheduler with a
\* negative worker_pool_size.
C15_Witness ==
    /\ LoadReturned
    /\ ev.file.kind = "yaml"
    /\ ev.out.err = "invalid configuration"
    /\ ev.out.cfg = Nil
    /\ LET c == yamlUnmarshalConfig(ev.file.fields)
       IN  /\ ~BrokersEmpty(c) /\ ~TopicEmpty(c) /\ ~TemplatePathEmpty(c)
           /\ SchedulerEnabled(c)
           /\ c.Scheduler.Interval > 0
           /\ c.Scheduler.WorkerPoolSize < 0

\* setDefaults has been applied: to ev.input to give ev.cfg.
Defaulted == ev.stage \in {"defaulted", "defaulted twice"}

\* C16: setDefaults gives a zero-valued field its default (kafka-pusher, 10s,
\* 100, info, text, 1, and 5s and 1 for an enabled scheduler), leaves every
\* other field as it was, and applied a second time changes nothing.
C16_DefaultsOnlyUnset ==
    /\ Defaulted =>
        LET a == ev.input
            b == IF ev.stage = "defaulted" THEN ev.cfg ELSE ev.once
        IN  /\ b.ClientID = (IF a.ClientID = "" THEN "kafka-pusher" ELSE a.ClientID)
            /\ b.Timeout = (IF a.Timeout = 0 THEN 10 ELSE a.Timeout)
            /\ b.KafkaBatchSize = (IF a.KafkaBatchSize = 0 THEN 100 ELSE a.KafkaBatchSize)
            /\ b.Level = (IF a.Level = "" THEN "info" ELSE a.Level)
            /\ b.Format = (IF a.Format = "" THEN "text" ELSE a.Format)
            /\ b.PayloadBatchSize = (IF a.PayloadBatchSize = 0 THEN 1 ELSE a.PayloadBatchSize)
            /\ b.Brokers = a.Brokers
            /\ b.Topic = a.Topic
            /\ b.TemplatePath = a.TemplatePath
            /\ IF SchedulerEnabled(a)
               THEN /\ b.Scheduler.Enabled
                    /\ b.Scheduler.Interval =
                          (IF a.Scheduler.Interval = 0 THEN 5 ELSE a.Scheduler.Interval)
                    /\ b.Scheduler.WorkerPoolSize =
                          (IF a.Scheduler.WorkerPoolSize = 0 THEN 1
                           ELSE a.Scheduler.WorkerPoolSize)
               ELSE b.Scheduler = a.Scheduler
    /\ ev.stage = "defaulted twice" => ev.cfg = ev.once

\* setDefaults has been applied twice to a Config with an enabled scheduler
\* and nothing else set but the client id: the client id is kept, the rest
\* are the defaults.
C16_Witness ==
    /\ ev.stage = "defaulted twice"
    /\ ev.input.ClientID = "test-client"
    /\ ev.input.Timeout = 0
    /\ SchedulerEnabled(ev.input)
    /\ ev.input.Scheduler.Interval = 0
    /\ ev.cfg.ClientID = "test-client"
    /\ ev.cfg.Timeout = 10
    /\ ev.cfg.Scheduler.Interval = 5
    /\ ev.cfg.Scheduler.WorkerPoolSize = 1

(***************************************************************************)
(* NewGenerator.  A template file is what os.ReadFile, json.Unmarshal and   *)
(* yaml.Unmarshal make of the bytes at the path.                            *)
(***************************************************************************)
\* filepath.Ext: the suffix from the last dot of the last path element.
Ext(path) ==
    LET dots == {i \in 1..Len(path) :
                    path[i] = "." /\ \A j \in i..Len(path) : path[j] # "/"}
    IN  IF dots = {} THEN <<>>
        ELSE SubSeq(path, CHOOSE i \in dots : \A j \in dots : j <= i, Len(path))

\* strings.ToLower
ToLower(s) ==
    [i \in 1..Len(s) |->
        IF s[i] \in Upper
        THEN LowerSeq[CHOOSE k \in 1..Len(UpperSeq) : UpperSeq[k] = s[i]]
        ELSE s[i]]

\* The paths NewGenerator is given, and the files at them: one that cannot
\* be read; block YAML, which is no JSON; JSON, which is flow YAML too; JSON
\* behind a tab, which is no YAML; an unfinished {"template": and a list,
\* which neither parser reads into a Template.
TemplateFiles ==
    LET paths ==
            {<<"t", ".", "j", "s", "o", "n">>, <<"T", ".", "J", "S", "O", "N">>,
             <<"t", ".", "y", "a", "m", "l">>, <<"t", ".", "y", "m", "l">>,
             <<"t", ".", "t", "x", "t">>, <<"t">>,
             <<"a", ".", "j", "s", "o", "n", "/", "t">>}
        files ==
            {[readable |-> FALSE, yaml |-> Fail("yaml"), json |-> Fail("json")],
             [readable |-> TRUE, yaml |-> Ok(TemplateGuid),
              json |-> Fail("json: invalid character 's'")],
             [readable |-> TRUE, yaml |-> Ok(TemplateBadAction),
              json |-> Ok(TemplateBadAction)],
             [readable |-> TRUE,
              yaml |-> Fail("yaml: found character that cannot start any token"),
              json |-> Ok(TemplateLiteral)],
             [readable |-> TRUE,
              yaml |-> Fail("yaml: did not find expected node content"),
              json |-> Fail("json: unexpected end of JSON input")],
             [readable |-> TRUE,
              yaml |-> Fail("yaml: cannot unmarshal !!seq into Template"),
              json |-> Fail("json: cannot unmarshal array into Template")]}
    IN  {[path |-> p, file |-> f] : p \in paths, f \in files}

\* The parsers every extension is read with.
ParsersTryBoth(ext) == <<"yaml", "json">>

\* The switch on the extension: the parsers NewGenerator tries, in order.
Parsers(ext) ==
    CASE ext = <<".", "j", "s", "o", "n">> -> <<"json">>
      [] ext \in {<<".", "y", "a", "m", "l">>, <<".", "y", "m", "l">>} -> <<"yaml">>
      [] OTHER -> <<"yaml", "json">>

\* An error of NewGenerator, and no error.
LoadError(msg, causes) == [msg |-> msg, causes |-> causes]
NoError == LoadError(None, <<>>)

\* A return with an error that hands out what was parsed so far.
ReturnPartial(partial, err) == [gen |-> partial, err |-> err]

\* return nil, err
ReturnNil(partial, err) == [gen |-> Nil, err |-> err]

\* NewGenerator(path): the Template of the *Generator and the error; t is
\* the Template the parsers fill.
NewGenerator(path, file) ==
    LET t == Tmpl(EmptyMap, EmptyMap)
        try == Parsers(ToLower(Ext(path)))
        first == IF try[1] = "json" THEN file.json ELSE file.yaml
    IN  IF ~file.readable
        THEN ReturnNil(t, LoadError("failed to read template file", <<"open">>))
        ELSE IF first.err = None THEN [gen |-> first.val, err |-> NoError]
        ELSE IF Len(try) = 1
        THEN ReturnNil(t,
                LoadError(IF try[1] = "json" THEN "failed to parse JSON template"
                          ELSE "failed to parse YAML template", <<first.err>>))
        ELSE IF file.json.err = None THEN [gen |-> file.json.val, err |-> NoError]
        ELSE ReturnNil(t,
                LoadError("failed to parse template as YAML or JSON",
                          <<first.err, file.json.err>>))

\* No Generator yet: NewGenerator is about to be called, and no goroutine
\* has a Generator to call.
InitLoad ==
    /\ template = Tmpl(EmptyMap, EmptyMap)
    /\ loaded = template
    /\ mu = [readers |-> 0, writer |-> FALSE]
    /\ pc = [p \in Callers |-> "new"]
    /\ ncalls = [p \in Callers |-> 0]
    /\ todo = [p \in Callers |-> {}]
    /\ result = [p \in Callers |-> EmptyMap]
    /\ evaluated = [p \in Callers |-> EmptyMap]
    /\ ret = [p \in Callers |-> NoReturn]
    /\ crashed = FALSE
    /\ ev = EvIdle
    /\ newgen \in {[stage |-> "call", path |-> f.path, file |-> f.file] :
                      f \in TemplateFiles}
    /\ TaskIdle
    /\ SchedIdle

\* NewGenerator returns: with a Generator, which the goroutines may call, or
\* with an error.
NewGeneratorReturn ==
    /\ newgen.stage = "call"
    /\ LET out == NewGenerator(newgen.path, newgen.file)
       IN  /\ newgen' = [stage |-> "returned", path |-> newgen.path,
                         file |-> newgen.file, gen |-> out.gen, err |-> out.err]
           /\ IF out.gen # Nil
              THEN /\ template' = out.gen
                   /\ loaded' = out.gen
                   /\ pc' = [p \in Callers |-> "idle"]
              ELSE UNCHANGED <<template, loaded, pc>>
    /\ UNCHANGED <<mu, ncalls, todo, result, evaluated, ret, crashed, ev,
                   taskVars, schedVars>>

NextLoad == NewGeneratorReturn \/ Next

SpecLoad == InitLoad /\ [][NextLoad]_vars

(***************************************************************************)
(* Properties of NewGenerator (specification SpecLoad).                    *)
(***************************************************************************)
\* Whether the path ends with the suffix, letter case aside.
EndsWithFold(path, suffix) ==
    /\ Len(path) >= Len(suffix)
    /\ \A k \in 1..Len(suffix) :
          LET c == path[Len(path) - Len(suffix) + k]
          IN  \/ c = suffix[k]
              \/ \E n \in 1..Len(LowerSeq) : c = UpperSeq[n] /\ suffix[k] = LowerSeq[n]

IsJSONPath(path) == EndsWithFold(path, <<".", "j", "s", "o", "n">>)
IsYAMLPath(path) ==
    \/ EndsWithFold(path, <<".", "y", "a", "m", "l">>)
    \/ EndsWithFold(path, <<".", "y", "m", "l">>)

\* NewGenerator has returned, for a file it could read.
NewGeneratorRead == newgen.stage = "returned" /\ newgen.file.readable

\* NewGenerator has returned the Template t and no error.
Constructed(t) == newgen.gen = t /\ newgen.err.msg = None

\* NewGenerator has returned no Generator and an error with these causes.
Rejected(causes) ==
    newgen.gen = Nil /\ newgen.err.msg # None /\ newgen.err.causes = causes

\* C11: a path that ends in .json, in any letter case, is parsed as JSON
\* only, one that ends in .yaml or .yml as YAML only, and any other as YAML
\* and, when that fails, as JSON; when both fail the error carries the YAML
\* error and the JSON error.
C11_ParserByExtension ==
    NewGeneratorRead =>
        LET y == newgen.file.yaml
            j == newgen.file.json
        IN  CASE IsJSONPath(newgen.path) ->
                    IF j.err = None THEN Constructed(j.val) ELSE Rejected(<<j.err>>)
              [] IsYAMLPath(newgen.path) ->
                    IF y.err = None THEN Constructed(y.val) ELSE Rejected(<<y.err>>)
              [] OTHER ->
                    IF y.err = None THEN Constructed(y.val)
                    ELSE IF j.err = None THEN Constructed(j.val)
                    ELSE Rejected(<<y.err, j.err>>)

\* T.JSON holds block YAML: NewGenerator has failed with the JSON error,
\* though the YAML parser reads the file.
C11_Witness ==
    /\ NewGeneratorRead
    /\ newgen.path = <<"T", ".", "J", "S", "O", "N">>
    /\ newgen.file.yaml.err = None
    /\ newgen.file.json.err # None
    /\ Rejected(<<newgen.file.json.err>>)

\* C12: NewGenerator returns a Generator or an error, never both and never
\* neither, and so does Generate with its bytes; when a substitution fails
\* to evaluate, the call ends there with that error, buildSubstitutions
\* hands out no mapping and no further key is evaluated.
C12_ResultOrError ==
    /\ newgen.stage = "returned" =>
          /\ (newgen.err.msg = None) # (newgen.gen = Nil)
          /\ ~newgen.file.readable => newgen.gen = Nil
          /\ newgen.gen = Nil => \A p \in Callers : pc[p] = "new" /\ ret[p] = NoReturn
    /\ \A p \in Callers :
          /\ Returned(p) => (ret[p].err = None) # (ret[p].bytes = None)
          /\ (pc[p] = "unlock" /\ ret[p].err \in RandomErrors) =>
                /\ result[ResultSlot(p)] = EmptyMap
                /\ todo[p] = {}
                /\ DOMAIN evaluated[p] # DOMAIN template.Substitution

\* A Generator read from t.yml has failed a Generate call on the random
\* source: the call has returned the error and no bytes.
C12_Witness ==
    /\ newgen.stage = "returned"
    /\ newgen.path = <<"t", ".", "y", "m", "l">>
    /\ newgen.err.msg = None
    /\ \E p \in Callers :
          /\ pc[p] = "unlock"
          /\ ret[p] = [bytes |-> None, err |-> "random bytes"]

(***************************************************************************)
(* run's task function: one goroutine per payload generates a batch and    *)
(* sends it.  A Generate call gives a new message or an error, a SendBatch  *)
(* call succeeds or fails.                                                  *)
(***************************************************************************)
\* The goroutine returns.
AfterGenerateErrorGoOn == "generate"
\* Where a payload's goroutine is after a Generate call has failed.
AfterGenerateError == "failed"

InitTask ==
    /\ template = TemplateLiteral
    /\ loaded = template
    /\ mu = [readers |-> 0, writer |-> FALSE]
    /\ pc = [p \in Callers |-> "idle"]
    /\ ncalls = [p \in Callers |-> 0]
    /\ todo = [p \in Callers |-> {}]
    /\ result = [p \in Callers |-> EmptyMap]
    /\ evaluated = [p \in Callers |-> EmptyMap]
    /\ ret = [p \in Callers |-> NoReturn]
    /\ crashed = FALSE
    /\ ev = EvIdle
    /\ newgen = [stage |-> "returned", err |-> [msg |-> None, causes |-> <<>>]]
    /\ generators \in
          {[p \in 1..NumPayloads |-> [topic |-> <<"topic", p>>, batchSize |-> b[p]]] :
              b \in [1..NumPayloads -> 0..MaxBatchSize]}
    /\ task = [stage |-> "idle", exec |-> 0, err |-> <<>>]
    /\ taskPc = [p \in 1..NumPayloads |-> "idle"]
    /\ messages = [p \in 1..NumPayloads |-> <<>>]
    /\ sends = [p \in 1..NumPayloads |-> <<>>]
    /\ errChan = <<>>
    /\ SchedIdle

\* taskFunc is called: errChan is made and a goroutine started for every
\* payload, each with its messages slice.
TaskCall ==
    /\ task.stage \in {"idle", "returned"}
    /\ task.exec < MaxExecs
    /\ task' = [stage |-> "wait", exec |-> task.exec + 1, err |-> <<>>]
    /\ taskPc' = [p \in DOMAIN generators |-> "generate"]
    /\ messages' = [p \in DOMAIN generators |-> <<>>]
    /\ sends' = [p \in DOMAIN generators |-> <<>>]
    /\ errChan' = <<>>
    /\ UNCHANGED <<genVars, ev, newgen, generators, schedVars>>

\* One pass of the loop: pg.generator.Generate() gives message i, or an
\* error, which goes to errChan.
TaskGenerate(p) ==
    /\ taskPc[p] = "generate"
    /\ Len(messages[p]) < generators[p].batchSize
    /\ LET i == Len(messages[p]) + 1
       IN  \/ /\ messages' = [messages EXCEPT ![p] =
                    Append(@, [generator |-> p, exec |-> task.exec, i |-> i])]
              /\ UNCHANGED <<taskPc, errChan>>
           \/ /\ errChan' = Append(errChan, [payload |-> p, op |-> "generate", i |-> i])
              /\ taskPc' = [taskPc EXCEPT ![p] = AfterGenerateError]
              /\ UNCHANGED messages
    /\ UNCHANGED <<genVars, ev, newgen, generators, task, sends, schedVars>>

\* The loop is over: producer.SendBatch(ctx, pg.topic, messages), whose
\* error goes to errChan; the goroutine returns.
TaskSendBatch(p) ==
    /\ taskPc[p] = "generate"
    /\ Len(messages[p]) >= generators[p].batchSize
    /\ sends' = [sends EXCEPT ![p] =
                    Append(@, [topic |-> generators[p].topic, batch |-> messages[p]])]
    /\ taskPc' = [taskPc EXCEPT ![p] = "done"]
    /\ \/ UNCHANGED errChan
       \/ errChan' = Append(errChan, [payload |-> p, op |-> "send", i |-> 0])
    /\ UNCHANGED <<genVars, ev, newgen, generators, task, messages, schedVars>>

\* wg.Wait() is over: taskFunc returns the first error of errChan, or nil.
TaskReturn ==
    /\ task.stage = "wait"
    /\ \A p \in DOMAIN generators : taskPc[p] \in {"failed", "done"}
    /\ task' = [task EXCEPT !.stage = "returned",
                            !.err = IF errChan = <<>> THEN <<>> ELSE <<Head(errChan)>>]
    /\ UNCHANGED <<genVars, ev, newgen, generators, taskPc, messages, sends,
                   errChan, schedVars>>

NextTask ==
    \/ TaskCall
    \/ TaskReturn
    \/ \E p \in DOMAIN generators : TaskGenerate(p) \/ TaskSendBatch(p)

SpecTask == InitTask /\ [][NextTask]_vars

(***************************************************************************)
(* Properties of the task function (specification SpecTask).               *)
(***************************************************************************)
\* A Generate call of payload p has failed in this execution.
GenerateFailed(p) ==
    \E k \in 1..Len(errChan) : errChan[k].payload = p /\ errChan[k].op = "generate"

\* C17: in one execution a payload's goroutine calls SendBatch at most
\* once, with the payload's topic and batch_size messages that its own
\* generator made in this execution; after a failed Generate of a payload
\* nothing is sent for it; and when the execution is over every payload
\* without such a failure has sent its batch.
C17_OneBatchPerPayload ==
    \A p \in DOMAIN generators :
        /\ Len(sends[p]) <= 1
        /\ \A k \in 1..Len(sends[p]) :
              /\ sends[p][k].topic = generators[p].topic
              /\ Len(sends[p][k].batch) = generators[p].batchSize
              /\ \A i \in 1..Len(sends[p][k].batch) :
                    sends[p][k].batch[i] =
                        [generator |-> p, exec |-> task.exec, i |-> i]
        /\ GenerateFailed(p) => sends[p] = <<>>
        /\ (task.stage = "returned" /\ ~GenerateFailed(p)) => Len(sends[p]) = 1

\* In the second execution payload 1 has failed at its second message and
\* sent nothing, payload 2 has sent its batch of two, and taskFunc has
\* returned an error.
C17_Witness ==
    /\ task.stage = "returned"
    /\ task.exec = 2
    /\ task.err # <<>>
    /\ GenerateFailed(1)
    /\ Len(messages[1]) = 1
    /\ sends[1] = <<>>
    /\ generators[2].batchSize = 2
    /\ Len(sends[2]) = 1
    /\ Len(sends[2][1].batch) = 2

(***************************************************************************)
(* The Scheduler.  Every successful Start makes a context, a task channel, *)
(* WorkerPoolSize workers and a ticker: one entry of sched.gen.  A step is  *)
(* a critical section of s.mu or one access outside it, so the accesses    *)
(* Stop makes to s.cancel and s.wg without the lock interleave with the     *)
(* other goroutines; so is a critical section of stats.mu, between its     *)
(* Lock and its Unlock.  The task itself is taken by its outcome.           *)
(***************************************************************************)
NewScheduler(workers) ==
    [cfg |-> [WorkerPoolSize |-> workers], running |-> FALSE, cancel |-> 0,
     wg |-> 0, gen |-> <<>>, ticks |-> 0, last |-> "new", crashed |-> FALSE,
     stats |-> [ExecutionCount |-> 0, SuccessCount |-> 0, ErrorCount |-> 0,
                mu |-> <<>>]]

\* What Start makes: ctx, taskChan, and the goroutines not yet started;
\* at is where a worker is in executeTask; signals and ticks count the
\* ticker's sends and the ticks it has received.
NewContext(workers) ==
    [done |-> FALSE, taskChan |-> [len |-> 0, closed |-> FALSE],
     ticker |-> "none", worker |-> [i \in 1..workers |-> "none"],
     at |-> [i \in 1..workers |-> "-"], signals |-> 0, ticks |-> 0]

\* A goroutine that will make so many calls of the API, before the first.
NewCaller(calls) ==
    [pc |-> "idle", op |-> "none", ret |-> "none", g |-> 0, n |-> 0, max |-> calls,
     stats |-> [ExecutionCount |-> 0, SuccessCount |-> 0, ErrorCount |-> 0]]

\* Start does not look at s.running.
RunningIgnored(s) == FALSE
\* Start's test of s.running.
AlreadyRunning(s) == s.running

\* Stop does not wait.
WaitSkipped(s) == TRUE
\* s.wg.Wait() returns when the counter is zero.
WaitReturns(s) == s.wg = 0

\* The workers of generation g that Start has started.
Spawned(g) == Cardinality({i \in DOMAIN sched.gen[g].worker : sched.gen[g].worker[i] # "none"})

\* A new Scheduler and the goroutines that will call its API.
InitScheduler(workers, callers, calls) ==
    /\ template = TemplateLiteral
    /\ loaded = template
    /\ mu = [readers |-> 0, writer |-> FALSE]
    /\ pc = [p \in Callers |-> "idle"]
    /\ ncalls = [p \in Callers |-> 0]
    /\ todo = [p \in Callers |-> {}]
    /\ result = [p \in Callers |-> EmptyMap]
    /\ evaluated = [p \in Callers |-> EmptyMap]
    /\ ret = [p \in Callers |-> NoReturn]
    /\ crashed = FALSE
    /\ ev = EvIdle
    /\ newgen = [stage |-> "returned", err |-> [msg |-> None, causes |-> <<>>]]
    /\ TaskIdle
    /\ sched \in {NewScheduler(w) : w \in workers}
    /\ api = [c \in 1..callers |-> NewCaller(calls)]

\* One goroutine calls the API, one call after the other, as run does.
InitSched == InitScheduler(0..MaxWorkers, 1, MaxApiCalls)

\* Start, up to the unlock: an error if running, else running is set and
\* the context and s.cancel are made.
Start(c) ==
    /\ ~sched.crashed
    /\ api[c].pc = "idle"
    /\ api[c].n < api[c].max
    /\ IF AlreadyRunning(sched)
       THEN /\ api' = [api EXCEPT ![c] = [@ EXCEPT !.op = "Start", !.ret = "error",
                                                   !.n = @ + 1]]
            /\ UNCHANGED sched
       ELSE /\ sched' = [sched EXCEPT !.running = TRUE,
                                      !.cancel = Len(sched.gen) + 1,
                                      !.gen = Append(@, NewContext(sched.cfg.WorkerPoolSize)),
                                      !.last = "start"]
            /\ api' = [api EXCEPT ![c] = [@ EXCEPT !.pc = "spawn", !.op = "Start",
                                                   !.ret = "none", !.n = @ + 1,
                                                   !.g = Len(sched.gen) + 1]]
    /\ UNCHANGED <<genVars, ev, newgen, taskVars>>

\* s.wg.Add(1); go s.worker(ctx, i, taskChan)
StartWorker(c) ==
    /\ ~sched.crashed
    /\ api[c].pc = "spawn"
    /\ Spawned(api[c].g) < sched.cfg.WorkerPoolSize
    /\ sched' = [sched EXCEPT !.wg = @ + 1,
                              !.gen[api[c].g].worker[Spawned(api[c].g) + 1] = "select"]
    /\ UNCHANGED <<genVars, ev, newgen, taskVars, api>>

\* s.wg.Add(1); go s.ticker(ctx, taskChan); return nil
StartTicker(c) ==
    /\ ~sched.crashed
    /\ api[c].pc = "spawn"
    /\ Spawned(api[c].g) = sched.cfg.WorkerPoolSize
    /\ sched' = [sched EXCEPT !.wg = @ + 1, !.gen[api[c].g].ticker = "first"]
    /\ api' = [api EXCEPT ![c] = [@ EXCEPT !.pc = "idle", !.ret = "nil"]]
    /\ UNCHANGED <<genVars, ev, newgen, taskVars>>

\* Stop, up to the unlock: an error if not running.
Stop(c) ==
    /\ ~sched.crashed
    /\ api[c].pc = "idle"
    /\ api[c].n < api[c].max
    /\ api' = [api EXCEPT ![c] =
                  IF sched.running
                  THEN [@ EXCEPT !.pc = "test", !.op = "Stop", !.ret = "none", !.n = @ + 1]
                  ELSE [@ EXCEPT !.op = "Stop", !.ret = "error", !.n = @ + 1]]
    /\ UNCHANGED <<genVars, ev, newgen, taskVars, sched>>

\* if s.cancel != nil
StopTestCancel(c) ==
    /\ ~sched.crashed
    /\ api[c].pc = "test"
    /\ api' = [api EXCEPT ![c].pc = IF sched.cancel # 0 THEN "cancel" ELSE "wait"]
    /\ UNCHANGED <<genVars, ev, newgen, taskVars, sched>>

\* s.cancel(): the field is read again and called; calling nil panics.
StopCallCancel(c) ==
    /\ ~sched.crashed
    /\ api[c].pc = "cancel"
    /\ IF sched.cancel = 0
       THEN /\ sched' = [sched EXCEPT !.crashed = TRUE]
            /\ api' = [api EXCEPT ![c].pc = "panic"]
       ELSE /\ sched' = [sched EXCEPT !.gen[sched.cancel].done = TRUE]
            /\ api' = [api EXCEPT ![c].pc = "clear"]
    /\ UNCHANGED <<genVars, ev, newgen, taskVars>>

\* s.cancel = nil
StopClearCancel(c) ==
    /\ ~sched.crashed
    /\ api[c].pc = "clear"
    /\ sched' = [sched EXCEPT !.cancel = 0]
    /\ api' = [api EXCEPT ![c].pc = "wait"]
    /\ UNCHANGED <<genVars, ev, newgen, taskVars>>

\* s.wg.Wait()
StopWait(c) ==
    /\ ~sched.crashed
    /\ api[c].pc = "wait"
    /\ WaitReturns(sched)
    /\ api' = [api EXCEPT ![c].pc = "waited"]
    /\ UNCHANGED <<genVars, ev, newgen, taskVars, sched>>

\* s.running = false under the lock; return nil
StopReturn(c) ==
    /\ ~sched.crashed
    /\ api[c].pc = "waited"
    /\ sched' = [sched EXCEPT !.running = FALSE, !.last = "stop"]
    /\ api' = [api EXCEPT ![c] = [@ EXCEPT !.pc = "idle", !.ret = "nil"]]
    /\ UNCHANGED <<genVars, ev, newgen, taskVars>>

IsRunning(c) ==
    /\ ~sched.crashed
    /\ api[c].pc = "idle"
    /\ api[c].n < api[c].max
    /\ api' = [api EXCEPT ![c] = [@ EXCEPT !.op = "IsRunning",
                                           !.ret = IF sched.running THEN "true" ELSE "false",
                                           !.n = @ + 1]]
    /\ UNCHANGED <<genVars, ev, newgen, taskVars, sched>>

\* The ticker's send of a task signal, at once after its start and after a
\* tick, when the channel has room.
TickerSend(g) ==
    /\ ~sched.crashed
    /\ sched.gen[g].ticker \in {"first", "send"}
    /\ sched.gen[g].taskChan.len < sched.cfg.WorkerPoolSize
    /\ sched' = [sched EXCEPT !.gen[g].taskChan.len = @ + 1, !.gen[g].ticker = "wait",
                              !.gen[g].signals = @ + 1]
    /\ UNCHANGED <<genVars, ev, newgen, taskVars, api>>

\* The ticker waits for a tick before its first send.
TickerTickFirst(g) ==
    /\ ~sched.crashed
    /\ sched.gen[g].ticker \in {"first", "wait"}
    /\ sched.ticks < MaxTicks
    /\ sched' = [sched EXCEPT !.ticks = @ + 1, !.gen[g].ticker = "send",
                              !.gen[g].ticks = @ + 1]
    /\ UNCHANGED <<genVars, ev, newgen, taskVars, api>>

\* case <-ticker.C
TickerTick(g) ==
    /\ ~sched.crashed
    /\ sched.gen[g].ticker = "wait"
    /\ sched.ticks < MaxTicks
    /\ sched' = [sched EXCEPT !.ticks = @ + 1, !.gen[g].ticker = "send",
                              !.gen[g].ticks = @ + 1]
    /\ UNCHANGED <<genVars, ev, newgen, taskVars, api>>

\* case <-ctx.Done() of any of the ticker's selects: it returns, and its
\* deferred calls close the channel and tell the WaitGroup.
TickerDone(g) ==
    /\ ~sched.crashed
    /\ sched.gen[g].ticker \in {"first", "wait", "send"}
    /\ sched.gen[g].done
    /\ sched' = [sched EXCEPT !.gen[g].ticker = "exited",
                              !.gen[g].taskChan.closed = TRUE,
                              !.wg = @ - 1]
    /\ UNCHANGED <<genVars, ev, newgen, taskVars, api>>

\* case _, ok := <-taskChan with a signal: s.executeTask(ctx, id)
WorkerReceive(g, i) ==
    /\ ~sched.crashed
    /\ sched.gen[g].worker[i] = "select"
    /\ sched.gen[g].taskChan.len > 0
    /\ sched' = [sched EXCEPT !.gen[g].taskChan.len = @ - 1,
                              !.gen[g].worker[i] = "task",
                              !.gen[g].at[i] = "count"]
    /\ UNCHANGED <<genVars, ev, newgen, taskVars, api>>

\* s.stats.mu.Lock(), before either update of the counters.
executeTaskLock(g, i) ==
    /\ ~sched.crashed
    /\ sched.gen[g].at[i] \in {"count", "nil", "err"}
    /\ sched.stats.mu = <<>>
    /\ sched' = [sched EXCEPT !.stats.mu = <<g, i>>]
    /\ UNCHANGED <<genVars, ev, newgen, taskVars, api>>

\* The execution is not counted when it begins.
executeTaskCountSkipped(g, i) ==
    /\ ~sched.crashed
    /\ sched.gen[g].at[i] = "count"
    /\ sched.stats.mu = <<g, i>>
    /\ sched' = [sched EXCEPT !.stats.mu = <<>>, !.gen[g].at[i] = "log"]
    /\ UNCHANGED <<genVars, ev, newgen, taskVars, api>>

\* s.stats.ExecutionCount++; s.stats.mu.Unlock()
executeTaskCount(g, i) ==
    /\ ~sched.crashed
    /\ sched.gen[g].at[i] = "count"
    /\ sched.stats.mu = <<g, i>>
    /\ sched' = [sched EXCEPT !.stats.ExecutionCount = @ + 1,
                              !.stats.mu = <<>>,
                              !.gen[g].at[i] = "log"]
    /\ UNCHANGED <<genVars, ev, newgen, taskVars, api>>

\* s.logger.Debug("executing task", ..., s.stats.ExecutionCount): the
\* counter is read for the log record, with stats.mu released.
executeTaskLog(g, i) ==
    /\ ~sched.crashed
    /\ sched.gen[g].at[i] = "log"
    /\ sched' = [sched EXCEPT !.gen[g].at[i] = "task"]
    /\ UNCHANGED <<genVars, ev, newgen, taskVars, api>>

\* err := s.task(ctx): the task returns nil or an error.
executeTaskCall(g, i) ==
    /\ ~sched.crashed
    /\ sched.gen[g].at[i] = "task"
    /\ \E err \in {"nil", "err"} :
          sched' = [sched EXCEPT !.gen[g].at[i] = err]
    /\ UNCHANGED <<genVars, ev, newgen, taskVars, api>>

\* s.stats.ErrorCount++ or s.stats.SuccessCount++ and s.stats.mu.Unlock():
\* executeTask returns, and the worker selects again.
WorkerTaskReturn(g, i) ==
    /\ ~sched.crashed
    /\ sched.gen[g].worker[i] = "task"
    /\ sched.gen[g].at[i] \in {"nil", "err"}
    /\ sched.stats.mu = <<g, i>>
    /\ sched' = [sched EXCEPT !.stats.ErrorCount =
                                  IF sched.gen[g].at[i] = "err" THEN @ + 1 ELSE @,
                              !.stats.SuccessCount =
                                  IF sched.gen[g].at[i] = "nil" THEN @ + 1 ELSE @,
                              !.stats.mu = <<>>,
                              !.gen[g].at[i] = "-",
                              !.gen[g].worker[i] = "select"]
    /\ UNCHANGED <<genVars, ev, newgen, taskVars, api>>

\* The caller of Start cancels the context it has passed.
ContextCancel(g) ==
    /\ ~sched.crashed
    /\ ~sched.gen[g].done
    /\ sched' = [sched EXCEPT !.gen[g].done = TRUE]
    /\ UNCHANGED <<genVars, ev, newgen, taskVars, api>>

\* GetStats copies the counters under s.stats.mu.RLock().
GetStats(c) ==
    /\ ~sched.crashed
    /\ api[c].pc = "idle"
    /\ api[c].n < api[c].max
    /\ sched.stats.mu = <<>>
    /\ api' = [api EXCEPT ![c] = [@ EXCEPT !.op = "GetStats", !.ret = "stats",
                                           !.n = @ + 1,
                                           !.stats = [f \in DOMAIN @ |-> sched.stats[f]]]]
    /\ UNCHANGED <<genVars, ev, newgen, taskVars, sched>>

\* The worker returns: the channel is closed and empty, or case <-ctx.Done().
WorkerReturn(g, i) ==
    /\ ~sched.crashed
    /\ sched.gen[g].worker[i] = "select"
    /\ \/ sched.gen[g].taskChan.closed /\ sched.gen[g].taskChan.len = 0
       \/ sched.gen[g].done
    /\ sched' = [sched EXCEPT !.gen[g].worker[i] = "exited", !.wg = @ - 1]
    /\ UNCHANGED <<genVars, ev, newgen, taskVars, api>>

NextSched ==
    \/ \E c \in DOMAIN api :
          \/ Start(c) \/ StartWorker(c) \/ StartTicker(c)
          \/ Stop(c) \/ StopTestCancel(c) \/ StopCallCancel(c)
          \/ StopClearCancel(c) \/ StopWait(c) \/ StopReturn(c)
          \/ IsRunning(c) \/ GetStats(c)
    \/ \E g \in DOMAIN sched.gen :
          \/ TickerSend(g) \/ TickerTick(g) \/ TickerDone(g) \/ ContextCancel(g)
          \/ \E i \in DOMAIN sched.gen[g].worker :
                \/ WorkerReceive(g, i) \/ WorkerTaskReturn(g, i) \/ WorkerReturn(g, i)
                \/ executeTaskLock(g, i) \/ executeTaskCount(g, i)
                \/ executeTaskLog(g, i) \/ executeTaskCall(g, i)

SpecSched == InitSched /\ [][NextSched]_vars

(***************************************************************************)
(* Properties of the Scheduler used by one goroutine (SpecSched).          *)
(***************************************************************************)
\* The task invocations executing now.
Executing ==
    {<<g, i>> \in
        UNION {{<<h, j>> : j \in DOMAIN sched.gen[h].worker} : h \in DOMAIN sched.gen} :
            sched.gen[g].worker[i] = "task"}

\* C18: at every moment the task invocations executing at the same time
\* are at most worker_pool_size, over every sequence of Start and Stop calls.
C18_AtMostPoolSizeExecuting == Cardinality(Executing) <= sched.cfg.WorkerPoolSize

\* After Start, Stop and a second Start, worker_pool_size (two) invocations
\* execute at the same time.
C18_Witness ==
    /\ Len(sched.gen) = 2
    /\ sched.cfg.WorkerPoolSize = 2
    /\ Cardinality(Executing) = 2

\* The goroutines of every Start have returned.
AllExited ==
    \A g \in DOMAIN sched.gen :
        /\ sched.gen[g].ticker = "exited"
        /\ \A i \in DOMAIN sched.gen[g].worker : sched.gen[g].worker[i] = "exited"

\* C19: once a Stop call on a running Scheduler has returned nil, and until
\* the next Start, the ticker and every worker have returned, no task
\* invocation is executing, and IsRunning() returns false.
C19_StopIsGraceful ==
    sched.last = "stop" =>
        /\ AllExited
        /\ Executing = {}
        /\ ~sched.running
        /\ \A c \in DOMAIN api : api[c].op = "IsRunning" => api[c].ret = "false"

\* A Stop has returned nil after a tick, so after the first signal, and no
\* signal is left in the channel: a worker has executed the task; and the
\* IsRunning call after the Stop has returned false.
C19_Witness ==
    /\ sched.last = "stop"
    /\ sched.cfg.WorkerPoolSize = 2
    /\ sched.ticks = 1
    /\ sched.gen[1].taskChan.len = 0
    /\ api[1].op = "IsRunning"
    /\ api[1].ret = "false"

(***************************************************************************)
(* The Scheduler used by several goroutines at the same time.              *)
(***************************************************************************)
\* A pool of one worker, and NumControllers goroutines calling the API.
InitSchedRace == InitScheduler({1}, NumControllers, MaxRaceCalls)

SpecSchedRace == InitSchedRace /\ [][NextSched]_vars

\* C20: with Stop called by two or more goroutines at the same time, or
\* together with Start and IsRunning, no call panics (s.cancel is not called
\* after it has been cleared), and when every call has returned and the
\* last one to change the state was a Stop, the Scheduler is stopped.
C20_ConcurrentUseSafe ==
    /\ ~sched.crashed
    /\ ((\A c \in DOMAIN api : api[c].pc = "idle") /\ sched.last = "stop") =>
           AllExited /\ ~sched.running

(***************************************************************************)
(* Properties of the Scheduler's statistics (SpecSched).                   *)
(***************************************************************************)
\* The workers of every Start, as <<g, i>>.
Workers ==
    UNION {{<<g, i>> : i \in DOMAIN sched.gen[g].worker} : g \in DOMAIN sched.gen}

\* C21: the statistics are free of data races: no goroutine reads a
\* counter with stats.mu released (the read of ExecutionCount for the log
\* record of executeTask) while another is inside a critical section of
\* stats.mu, where the counters are written.
C21_StatsUnderLock ==
    \A w \in Workers :
        sched.gen[w[1]].at[w[2]] = "log" => sched.stats.mu = <<>>

(***************************************************************************)
(* Properties of Start, Stop, the ticker and IsRunning (SpecSched).        *)
(***************************************************************************)
\* C22: a Start call on a running Scheduler returns an error and leaves the
\* Scheduler as it is (no worker or ticker more, s.cancel the same), and a
\* Stop call on a Scheduler that is not running returns an error and leaves
\* it as it is.
C22_GuardedByRunning ==
    [][\A c \in DOMAIN api :
          (api[c].pc = "idle" /\ api'[c].n = api[c].n + 1) =>
              /\ (api'[c].op = "Start" /\ sched.running) =>
                    (api'[c].pc = "idle" /\ api'[c].ret = "error" /\ sched' = sched)
              /\ (api'[c].op = "Stop" /\ ~sched.running) =>
                    (api'[c].pc = "idle" /\ api'[c].ret = "error" /\ sched' = sched)]_vars

\* A Start call has returned an error from a running Scheduler whose two
\* workers and ticker are alive.
C22_Witness ==
    /\ api[1].op = "Start"
    /\ api[1].ret = "error"
    /\ sched.running
    /\ sched.cfg.WorkerPoolSize = 2
    /\ Len(sched.gen) = 1
    /\ sched.wg = 3
    /\ sched.cancel = 1

\* C23: the ticker of a Start sends its first signal before it takes any
\* tick, and with worker_pool_size >= 1 the channel has room for it at once;
\* after that every tick it takes is followed by exactly one signal, which
\* only a cancelled context can keep it from sending.
C23_FirstSignalAtOnce ==
    \A g \in DOMAIN sched.gen :
        LET t == sched.gen[g]
        IN  /\ t.ticker \in {"none", "first"} => t.signals = 0 /\ t.ticks = 0
            /\ (t.ticker = "first" /\ sched.cfg.WorkerPoolSize >= 1) =>
                   t.taskChan.len < sched.cfg.WorkerPoolSize
            /\ t.ticks > 0 => t.signals >= 1
            /\ t.ticker = "wait" => t.signals = t.ticks + 1
            /\ t.ticker = "send" => t.signals = t.ticks
            /\ t.ticker = "exited" => t.done /\ t.signals \in {t.ticks, t.ticks + 1}

\* With the context not cancelled the ticker has sent the first signal, taken
\* a tick and sent the second; a worker has begun the first execution.
C23_Witness ==
    /\ Len(sched.gen) = 1
    /\ ~sched.gen[1].done
    /\ sched.gen[1].ticker = "wait"
    /\ sched.gen[1].ticks = 1
    /\ sched.gen[1].signals = 2
    /\ sched.stats.ExecutionCount >= 1

\* The ticker and every worker of the last Start have returned.
LastExited ==
    /\ sched.gen # <<>>
    /\ sched.gen[Len(sched.gen)].ticker = "exited"
    /\ \A i \in DOMAIN sched.gen[Len(sched.gen)].worker :
          sched.gen[Len(sched.gen)].worker[i] = "exited"

\* C24: an IsRunning call made when the ticker and all workers of the last
\* Start have returned, be it after Stop or after the caller has cancelled
\* the context it passed to Start, returns false.
C24_IsRunningFalseWhenExited ==
    [][\A c \in DOMAIN api :
          (/\ api[c].pc = "idle"
           /\ api'[c].n = api[c].n + 1
           /\ api'[c].op = "IsRunning"
           /\ LastExited) => api'[c].ret = "false"]_vars

\* The invocations in flight: counted in ExecutionCount by executeTask and
\* not yet in SuccessCount or ErrorCount.
InFlight == {w \in Workers : sched.gen[w[1]].at[w[2]] \in {"log", "task", "nil", "err"}}

\* C25: ExecutionCount = SuccessCount + ErrorCount + the invocations in
\* flight in every state; every GetStats snapshot has SuccessCount +
\* ErrorCount <= ExecutionCount <= SuccessCount + ErrorCount +
\* worker_pool_size; after Stop has returned ExecutionCount = SuccessCount +
\* ErrorCount; and no counter ever decreases.
C25_CountersAddUp ==
    /\ [](/\ sched.stats.ExecutionCount =
                sched.stats.SuccessCount + sched.stats.ErrorCount + Cardinality(InFlight)
          /\ \A c \in DOMAIN api :
                /\ api[c].stats.SuccessCount + api[c].stats.ErrorCount
                      <= api[c].stats.ExecutionCount
                /\ api[c].stats.ExecutionCount
                      <= api[c].stats.SuccessCount + api[c].stats.ErrorCount
                            + sched.cfg.WorkerPoolSize
          /\ sched.last = "stop" =>
                sched.stats.ExecutionCount =
                    sched.stats.SuccessCount + sched.stats.ErrorCount)
    /\ [][\A f \in {"ExecutionCount", "SuccessCount", "ErrorCount"} :
             sched'.stats[f] >= sched.stats[f]]_vars

\* GetStats has returned a snapshot taken with two executions counted, one
\* of them failed and one in flight.
C25_Witness ==
    /\ api[1].op = "GetStats"
    /\ api[1].stats.ExecutionCount = 2
    /\ api[1].stats.SuccessCount = 0
    /\ api[1].stats.ErrorCount = 1
    /\ Cardinality(InFlight) = 1

(***************************************************************************)
(* Text around a DSL token (specification SpecEval).                       *)
(***************************************************************************)
\* C26: a string that holds a DSL token anywhere, with text before it,
\* after it or both, is evaluated by the token's function, and the value is
\* what the function gives for the token alone: nothing of the text around
\* the token is in it.
C26_ValueIsGeneratedAlone ==
    \A tok \in DSLTokens :
        (ev.stage = "processed" /\ ev.value \in Around(tok)) =>
            /\ ev.out.fn = MatchingFunctions(tok)
            /\ Len(ev.out.fn) = 1
            /\ [val |-> ev.out.val, err |-> ev.out.err]
                  \in FunctionOutcomes(ev.out.fn[1], tok)

\* id-{{@rnd|2}}-x has been evaluated to two digits.
C26_Witness ==
    /\ Processed
    /\ ev.value = <<"i", "d", "-">> \o RndArg(2) \o <<"-", "x">>
    /\ ev.out.fn = <<"rnd">>
    /\ IsDigits(ev.out.val, 2)

=============================================================================
